---- MODULE Spec2Model ----
(***************************************************************************)
(* Model of the floor-plan viewer component UCCSvgMapPage                   *)
(* (src/app/_components/MapView.tsx): the scene loader, the hit-region      *)
(* resolver, programmatic navigation (goToRoom), the highlight reconciler,  *)
(* the label builder and the selection history.                             *)
(*                                                                          *)
(* React is modelled at the granularity of one event: an action is the      *)
(* whole handler, the state updates it makes, the re-render and the         *)
(* effects (with their cleanups) whose dependency lists changed.  Fetches   *)
(* and requestAnimationFrame callbacks are asynchronous: each is a value    *)
(* in flight that carries the closure it was created with, and a separate   *)
(* action delivers it.                                                      *)
(***************************************************************************)
EXTENDS Integers, Sequences, FiniteSets, TLC

----------------------------------------------------------------------------
(* Bounds of the model *)

\* scene fetches that may be in flight at once
MaxLoads == 2
\* requestAnimationFrame callbacks that may be queued at once
MaxRaf == 1
\* deliveries of the metadata document (the effect that fetches it runs once,
\* and twice when React StrictMode double-invokes mount effects)
MaxMetaFetches == 2
\* floors with a scene document; floor buttons beyond it are not pressed
NumFloors == 2
\* length of the selection log kept by the history specification
MaxSelections == 6
\* bits of the significand of a number (53 in the program)
MantissaBits == 6
\* pointers that touch the host at the same time
MaxPointers == 2
\* changes of the view transform by gestures and toolbar buttons
MaxTransformChanges == 2
\* calls of zoomAt from one transform, where zoomAt is looked at as a function
MaxFocalCalls == 1

----------------------------------------------------------------------------
(* Strings: JavaScript string functions, computed character by character *)

UpperChars == "ABCDEFGHIJKLMNOPQRSTUVWXYZ"
LowerChars == "abcdefghijklmnopqrstuvwxyz"

CharAt(s, i) == SubSeq(s, i, i)

\* the lower-case letter of each upper-case letter
LowerOf ==
  [c \in {CharAt(UpperChars, i) : i \in 1..Len(UpperChars)} |->
     CharAt(LowerChars, CHOOSE i \in 1..Len(UpperChars) : CharAt(UpperChars, i) = c)]

LowerChar(c) == IF c \in DOMAIN LowerOf THEN LowerOf[c] ELSE c

RECURSIVE LowerFrom(_, _)
LowerFrom(s, i) ==
  IF i > Len(s) THEN "" ELSE LowerChar(CharAt(s, i)) \o LowerFrom(s, i + 1)

\* String.prototype.toLowerCase
toLowerCase(s) == LowerFrom(s, 1)

IsSpace(c) == c = " "

\* String.prototype.trim
trim(s) ==
  IF \A i \in 1..Len(s) : IsSpace(CharAt(s, i)) THEN ""
  ELSE LET first == CHOOSE i \in 1..Len(s) :
                      /\ ~IsSpace(CharAt(s, i))
                      /\ \A j \in 1..(i - 1) : IsSpace(CharAt(s, j))
           last == CHOOSE i \in 1..Len(s) :
                      /\ ~IsSpace(CharAt(s, i))
                      /\ \A j \in (i + 1)..Len(s) : IsSpace(CharAt(s, j))
       IN SubSeq(s, first, last)

\* String.prototype.includes
includes(s, q) ==
  \E i \in 1..(Len(s) - Len(q) + 1) : SubSeq(s, i, i + Len(q) - 1) = q

\* String.prototype.startsWith
startsWith(s, q) == Len(q) <= Len(s) /\ SubSeq(s, 1, Len(q)) = q

\* \w of a JavaScript regular expression
IsWordChar(c) ==
  \/ c \in DOMAIN LowerOf
  \/ \E u \in DOMAIN LowerOf : LowerOf[u] = c
  \/ c \in {"0", "1", "2", "3", "4", "5", "6", "7", "8", "9", "_"}

\* /^word\b/i.test(id): the id starts with the word, in any case, and the
\* word ends at a word boundary (end of string, or a non-word character)
TestWordPrefix(word, id) ==
  /\ startsWith(toLowerCase(id), word)
  /\ (Len(id) = Len(word) \/ ~IsWordChar(CharAt(id, Len(word) + 1)))

----------------------------------------------------------------------------
(* The metadata document /data/rooms.json: a list of RoomMeta objects.     *)
(* An absent string field is "", an absent floor is NoFloor, an absent     *)
(* category is kind "absent".                                              *)

NoFloor == 0

Room(id, name, link, fl, description, category, categories, decorative) ==
  [id |-> id, name |-> name, link |-> link, floor |-> fl,
   description |-> description, category |-> category,
   categories |-> categories, decorative |-> decorative]

CatAbsent == [kind |-> "absent", v |-> << >>]
CatString(s) == [kind |-> "string", v |-> <<s>>]
CatArray(a) == [kind |-> "array", v |-> a]
CatsAbsent == [present |-> FALSE, v |-> << >>]
Cats(a) == [present |-> TRUE, v |-> a]

RoomsJson ==
  << Room("UCC100", "UCC Lab", "http://lab", 1, "first floor lab",
          CatString("classroom"), CatsAbsent, FALSE),
     Room("UCC146", "Meeting Room", "", 2, "",
          CatAbsent, Cats(<<"service">>), FALSE),
     Room("WC1", "", "", NoFloor, "",
          CatString("Bathroom"), Cats(<<"service">>), FALSE),
     Room("Atrium", "Atrium UCC", "", NoFloor, "hallway outline",
          CatString("service"), CatsAbsent, TRUE),
     Room("UCC200", "Storage", "", 2, "",
          CatAbsent, CatsAbsent, FALSE),
     Room("", "no id", "", 1, "", CatAbsent, CatsAbsent, FALSE) >>

\* metaById before the metadata document has arrived
EmptyMeta == [id \in {} |-> Room("", "", "", NoFloor, "", CatAbsent, CatsAbsent, FALSE)]

\* for (const r of arr) if (r.id) byId[r.id] = r;
IndexById(arr) ==
  LET ids == {arr[i].id : i \in 1..Len(arr)} \ {""}
  IN [id \in ids |->
        arr[CHOOSE i \in 1..Len(arr) :
              /\ arr[i].id = id
              /\ \A j \in (i + 1)..Len(arr) : arr[j].id # id]]

HasMeta(meta, id) == id \in DOMAIN meta

\* isDecorativeId, for the metaById its closure holds
isDecorativeId(meta, id) ==
  /\ id # ""
  /\ HasMeta(meta, id)
  /\ meta[id].decorative

----------------------------------------------------------------------------
(* The scene documents /floors/floor<n>.svg, as the DOM the browser builds  *)
(* from them: a list of elements in document order, element 1 the <svg>     *)
(* root.  parent is the index of the parent element (0 for the root), id   *)
(* is "" for an element without id, w and h are the bounding box getBBox   *)
(* reports.  The documents and the metadata document are written apart:   *)
(* UCC200 is drawn on floor 1 while its record says floor 2, X9 is drawn   *)
(* without a record.                                                       *)

El(id, tag, parent, decorativeClass, w, h) ==
  [id |-> id, tag |-> tag, parent |-> parent, decorativeClass |-> decorativeClass,
   w |-> w, h |-> h, bbox |-> "finite"]

\* an element whose getBBox() throws (bbox "throws": it is not rendered) or
\* reports a width and height that are not finite (bbox "nonfinite")
ElUnreadable(id, tag, parent, bbox) ==
  [El(id, tag, parent, FALSE, 0, 0) EXCEPT !.bbox = bbox]

\* svg.setAttribute("id", "floor-svg") at mount
RootEl == El("floor-svg", "svg", 0, FALSE, 400, 300)

SceneText(f) ==
  IF f = 1 THEN
    << RootEl,
       El("Layer_1", "g", 1, FALSE, 400, 300),
       El("UCC100", "rect", 2, FALSE, 120, 40),
       El("WC1", "g", 2, FALSE, 60, 60),
       El("", "path", 4, FALSE, 60, 60),
       El("Atrium", "path", 2, FALSE, 200, 100),
       El("X9", "rect", 2, FALSE, 30, 5),
       El("", "g", 2, TRUE, 50, 50),
       El("Trim", "rect", 8, FALSE, 50, 50),
       El("UCC200", "rect", 2, FALSE, 80, 20) >>
  ELSE IF f = 2 THEN
    << RootEl,
       El("Layer_1", "g", 1, FALSE, 400, 300),
       El("UCC146", "polygon", 2, FALSE, 40, 30),
       El("WC1", "g", 2, FALSE, 60, 60),
       El("", "path", 4, FALSE, 60, 60),
       El("Atrium", "path", 2, FALSE, 200, 100) >>
  ELSE
    << RootEl,
       El("Layer_1", "g", 1, FALSE, 400, 300),
       El("WC1", "g", 2, FALSE, 60, 60) >>

Floors == 1..NumFloors

\* The scene documents of the label specification, numbered from
\* LabelSceneBase: a region R1 with each bounding box of LabelWidths x
\* LabelHeights next to a region R2 that always fits its label, R1 with an
\* unreadable bounding box, and a document whose regions lie in wrapper
\* groups named after the floor and the layer
LabelSceneBase == 10
LabelWidths == <<0, 20, 50, 100, 120>>
LabelHeights == <<0, 5, 13, 14, 20, 40>>
LabelBoxCount == Len(LabelWidths) * Len(LabelHeights)
LabelSceneCount == LabelBoxCount + 3

LabelSceneText(n) ==
  IF n < LabelBoxCount THEN
    << RootEl,
       El("R1", "rect", 1, FALSE, LabelWidths[(n \div Len(LabelHeights)) + 1],
          LabelHeights[(n % Len(LabelHeights)) + 1]),
       El("R2", "path", 1, FALSE, 120, 40) >>
  ELSE IF n = LabelBoxCount THEN
    << RootEl, ElUnreadable("R1", "rect", 1, "throws"),
       El("R2", "path", 1, FALSE, 120, 40) >>
  ELSE IF n = LabelBoxCount + 1 THEN
    << RootEl, ElUnreadable("R1", "rect", 1, "nonfinite"),
       El("R2", "path", 1, FALSE, 120, 40) >>
  ELSE
    << RootEl,
       El("floor1", "g", 1, FALSE, 400, 300),
       El("layer_3", "g", 2, FALSE, 400, 300),
       El("R1", "rect", 3, FALSE, 120, 40),
       El("", "path", 3, FALSE, 50, 50),
       El("Floor2", "g", 1, FALSE, 400, 300),
       El("Layer_1", "g", 1, FALSE, 400, 300),
       El("floor", "g", 7, FALSE, 400, 300),
       El("R2", "path", 8, FALSE, 120, 40) >>

LabelFloors == LabelSceneBase..(LabelSceneBase + LabelSceneCount - 1)

\* the DOM of each floor's document, and of the empty host (floor 0)
SceneDocs ==
  [f \in (0..NumFloors) \cup LabelFloors |->
     IF f = 0 THEN << >>
     ELSE IF f \in LabelFloors THEN LabelSceneText(f - LabelSceneBase)
     ELSE SceneText(f)]

SceneDoc(f) == SceneDocs[f]

RECURSIVE AncestorsOrSelf(_, _)
AncestorsOrSelf(doc, k) ==
  IF k = 0 THEN << >> ELSE <<k>> \o AncestorsOrSelf(doc, doc[k].parent)

\* Element.closest("[id]"): the nearest ancestor-or-self bearing an id; 0 for null
closestId(doc, k) ==
  LET chain == AncestorsOrSelf(doc, k)
      hits == {i \in 1..Len(chain) : doc[chain[i]].id # ""}
  IN IF hits = {} THEN 0
     ELSE chain[CHOOSE i \in hits : \A j \in hits : i <= j]

\* Element.closest(".decorative") is not null
closestDecorative(doc, k) ==
  LET chain == AncestorsOrSelf(doc, k)
  IN \E i \in 1..Len(chain) : doc[chain[i]].decorativeClass

\* svg.querySelector("#id"): the first descendant of the root, in document
\* order, with that id; 0 for null
querySelectorId(doc, id) ==
  LET hits == {k \in 2..Len(doc) : doc[k].id = id}
  IN IF id = "" \/ hits = {} THEN 0
     ELSE CHOOSE k \in hits : \A j \in hits : k <= j

\* isDecorativeElement of the load effect, for the metaById of its closure
isDecorativeElement(meta, doc, k) ==
  IF k = 0 THEN FALSE
  ELSE closestDecorative(doc, k) \/ isDecorativeId(meta, doc[k].id)

\* isContainerId of the load effect
isContainerId(id) ==
  \/ TestWordPrefix("floor", id)
  \/ TestWordPrefix("layer", id)
  \/ id = "Layer_1"

\* svg.querySelectorAll("g[id], path[id], rect[id], polygon[id]")
ClickableSelector(doc) ==
  {k \in 2..Len(doc) : doc[k].id # "" /\ doc[k].tag \in {"g", "path", "rect", "polygon"}}

\* the elements the load effect attaches a click handler to
ClickHandlerEls(meta, doc) ==
  {k \in ClickableSelector(doc) : ~isDecorativeElement(meta, doc, k)}

----------------------------------------------------------------------------
(* Metadata helpers *)

\* Object.keys(metaById): the ids in insertion order
ObjectKeys(meta) ==
  LET first == {i \in 1..Len(RoomsJson) :
                  /\ RoomsJson[i].id \in DOMAIN meta
                  /\ \A j \in 1..(i - 1) : RoomsJson[j].id # RoomsJson[i].id}
      F[i \in 0..Len(RoomsJson)] ==
        IF i = 0 THEN << >>
        ELSE IF i \in first THEN Append(F[i - 1], RoomsJson[i].id) ELSE F[i - 1]
  IN F[Len(RoomsJson)]

SeqToSet(q) == {q[i] : i \in 1..Len(q)}

LowerAll(q) == [i \in 1..Len(q) |-> toLowerCase(q[i])]

\* collectCategories: category (a string or an array) and categories merged,
\* lower-cased
collectCategories(room) ==
  LowerAll((IF room.category.kind = "absent" THEN << >> ELSE room.category.v)
           \o (IF room.categories.present THEN room.categories.v ELSE << >>))

----------------------------------------------------------------------------
(* Highlight reconciler: applyHighlights *)

\* the ids the search text selects
SearchMatches(srch, meta) ==
  IF trim(srch) = "" THEN {}
  ELSE LET q == toLowerCase(srch)
       IN {id \in DOMAIN meta :
             /\ ~isDecorativeId(meta, id)
             /\ \/ includes(toLowerCase(id), q)
                \/ includes(toLowerCase(meta[id].name), q)}

\* const value = meta.categories ?? meta.category, normalized to an array
NormalizedCategory(room) ==
  IF room.categories.present THEN room.categories.v
  ELSE IF room.category.kind = "array" THEN room.category.v
  ELSE IF room.category.kind = "string" /\ room.category.v[1] # "" THEN room.category.v
  ELSE << >>

\* the ids the active category selects ("" is no active category)
CategoryMatches(cat, meta) ==
  IF cat = "" THEN {}
  ELSE {id \in DOMAIN meta :
          /\ ~isDecorativeId(meta, id)
          /\ cat \in SeqToSet(NormalizedCategory(meta[id]))}

\* the elements that carry ucc-highlight after applyHighlights has run on the
\* mounted scene doc
applyHighlights(srch, cat, meta, doc) ==
  {querySelectorId(doc, id) : id \in SearchMatches(srch, meta) \cup CategoryMatches(cat, meta)}
    \ {0}

----------------------------------------------------------------------------
(* Suggestions and exact match of the search box *)

\* the score that ranks an id equal to the query last
SuggestionScoreExactLast(room, q) ==
  LET idLower == toLowerCase(room.id)
      nameLower == toLowerCase(room.name)
  IN IF idLower = q THEN 10
     ELSE IF startsWith(idLower, q) THEN 90
     ELSE IF startsWith(nameLower, q) THEN 80
     ELSE IF includes(idLower, q) THEN 60
     ELSE IF includes(nameLower, q) THEN 50
     ELSE 0

\* the score of one room for the trimmed, lower-cased query q
SuggestionScore(room, q) ==
  LET idLower == toLowerCase(room.id)
      nameLower == toLowerCase(room.name)
  IN IF idLower = q THEN 100
     ELSE IF startsWith(idLower, q) THEN 90
     ELSE IF startsWith(nameLower, q) THEN 80
     ELSE IF includes(idLower, q) THEN 60
     ELSE IF includes(nameLower, q) THEN 50
     ELSE 0

\* the array scored of the suggestions memo, before it is sorted and cut
scored(srch, meta) ==
  LET q == toLowerCase(trim(srch))
  IN IF q = "" THEN {}
     ELSE {id \in DOMAIN meta :
             /\ ~isDecorativeId(meta, id)
             /\ SuggestionScore(meta[id], q) > 0}

Min(a, b) == IF a <= b THEN a ELSE b

DigitChars == "0123456789"

IndexIn(chars, c) == CHOOSE i \in 1..Len(chars) : CharAt(chars, i) = c

\* the primary weight of a character in the collation of localeCompare:
\* spaces and punctuation, then digits, then letters whatever their case
CollationWeight(c) ==
  IF c \in {CharAt(DigitChars, i) : i \in 1..Len(DigitChars)}
  THEN IndexIn(DigitChars, c)
  ELSE IF c \in {CharAt(LowerChars, i) : i \in 1..Len(LowerChars)}
  THEN Len(DigitChars) + IndexIn(LowerChars, c)
  ELSE IF c \in DOMAIN LowerOf
  THEN Len(DigitChars) + IndexIn(LowerChars, LowerOf[c])
  ELSE 0

\* the comparison of the weights of a and b from position i on
RECURSIVE ComparePrimary(_, _, _)
ComparePrimary(a, b, i) ==
  IF i > Len(a) /\ i > Len(b) THEN 0
  ELSE IF i > Len(a) THEN 0 - 1
  ELSE IF i > Len(b) THEN 1
  ELSE LET wa == CollationWeight(CharAt(a, i))
           wb == CollationWeight(CharAt(b, i))
       IN IF wa < wb THEN 0 - 1
          ELSE IF wa > wb THEN 1
          ELSE ComparePrimary(a, b, i + 1)

\* the comparison of the case of a and b, of equal weights, from position i
\* on: a lower-case letter comes before its upper-case letter
RECURSIVE CompareCase(_, _, _)
CompareCase(a, b, i) ==
  IF i > Len(a) THEN 0
  ELSE IF CharAt(a, i) = CharAt(b, i) THEN CompareCase(a, b, i + 1)
  ELSE IF CharAt(b, i) \in DOMAIN LowerOf THEN 0 - 1
  ELSE 1

\* a.localeCompare(b) for ids of letters and digits: negative, 0 or positive
localeCompare(a, b) ==
  LET primary == ComparePrimary(a, b, 1)
  IN IF primary # 0 THEN primary ELSE CompareCase(a, b, 1)

\* a comparator that ignores the score
CompareScoredById(meta, q, a, b) == localeCompare(a, b)

\* the comparator of scored.sort, for the entries of ids a and b
CompareScored(meta, q, a, b) ==
  LET sa == SuggestionScore(meta[a], q)
      sb == SuggestionScore(meta[b], q)
  IN IF sb # sa THEN sb - sa ELSE localeCompare(a, b)

\* scored.sort(...): the ids of the set ids in the order of the comparator
RECURSIVE SortScored(_, _, _)
SortScored(meta, q, ids) ==
  IF ids = {} THEN << >>
  ELSE LET first == CHOOSE a \in ids :
                      \A b \in ids \ {a} : CompareScored(meta, q, a, b) < 0
       IN <<first>> \o SortScored(meta, q, ids \ {first})

\* the suggestions memo: the ids of the rooms it returns, in order
suggestions(srch, meta) ==
  LET q == toLowerCase(trim(srch))
      sorted == SortScored(meta, q, scored(srch, meta))
  IN SubSeq(sorted, 1, Min(8, Len(sorted)))

\* getExactMatch: the id of the first room, in insertion order, whose id equals
\* the trimmed query case-insensitively and is not decorative; "" for null
getExactMatch(srch, meta) ==
  LET q == toLowerCase(trim(srch))
      keys == ObjectKeys(meta)
      hits == {i \in 1..Len(keys) :
                 toLowerCase(keys[i]) = q /\ ~isDecorativeId(meta, keys[i])}
  IN IF q = "" \/ hits = {} THEN ""
     ELSE keys[CHOOSE i \in hits : \A j \in hits : i <= j]

----------------------------------------------------------------------------
(* Label builder: rebuildRoomLabels.  Sizes are in hundredths of a unit.   *)

\* svg.querySelectorAll("g[id], path[id], rect[id], polygon[id], polyline[id]")
LabelCandidates(doc) ==
  {k \in 2..Len(doc) :
     doc[k].id # "" /\ doc[k].tag \in {"g", "path", "rect", "polygon", "polyline"}}

\* text.getComputedTextLength() at a font size: the browser's measurement,
\* taken as half an em per character
TextLength(label, fontSize) == (Len(label) * fontSize) \div 2

\* the fitting loop with a decrement of two
RECURSIVE FitFontSizeByTwo(_, _, _)
FitFontSizeByTwo(label, fontSize, width) ==
  IF fontSize < 800 THEN 0
  ELSE IF TextLength(label, fontSize) * 10 <= width * 100 * 9 THEN fontSize
  ELSE FitFontSizeByTwo(label, fontSize - 200, width)

\* the font size the fitting loop stops at, 0 when no size fits
RECURSIVE FitFontSize(_, _, _)
FitFontSize(label, fontSize, width) ==
  IF fontSize < 800 THEN 0
  ELSE IF TextLength(label, fontSize) * 10 <= width * 100 * 9 THEN fontSize
  ELSE FitFontSize(label, fontSize - 100, width)

\* the label text of a room
LabelText(meta, id) == trim(IF meta[id].name # "" THEN meta[id].name ELSE id)

\* nine tenths of the box height taken as the largest font size
maxFontSizeNineTenths(height) == Min(2000, height * 90)

\* const maxFontSize = Math.min(20, bbox.height * 0.6)
maxFontSize(height) == Min(2000, height * 60)

\* the font size of the label of element k, 0 when the element gets no label
LabelFontSize(meta, doc, k) ==
  LET id == doc[k].id
  IN IF \/ TestWordPrefix("floor", id) \/ TestWordPrefix("layer", id) \/ id = "Layer_1"
        \/ isDecorativeId(meta, id)
        \/ ~HasMeta(meta, id)
     THEN 0
     ELSE IF "bathroom" \in SeqToSet(collectCategories(meta[id])) THEN 0
     ELSE IF doc[k].bbox # "finite" THEN 0
     ELSE IF doc[k].w <= 0 \/ doc[k].h <= 0 THEN 0
     ELSE IF maxFontSize(doc[k].h) < 800 THEN 0
     ELSE IF LabelText(meta, id) = "" THEN 0
     ELSE LET fontSize == FitFontSize(LabelText(meta, id),
                                      Min(1800, maxFontSize(doc[k].h)), doc[k].w)
          IN IF fontSize = 0 THEN 0
             ELSE IF doc[k].h * 1000 < fontSize * 11 THEN 0
             ELSE fontSize

\* the text elements of the label layer rebuildRoomLabels leaves in the scene
\* ({} when no layer is left)
rebuildRoomLabels(meta, doc) ==
  IF DOMAIN meta = {} THEN {}
  ELSE {[el |-> k, text |-> LabelText(meta, doc[k].id),
         fontSize |-> LabelFontSize(meta, doc, k)] :
          k \in {c \in LabelCandidates(doc) : LabelFontSize(meta, doc, c) > 0}}

\* labelLayerRef.current = null and no label layer in the scene
NoOverlay == [layers |-> 0, ref |-> "null"]

\* host.innerHTML = ...: the scene is replaced, so the new scene holds no
\* layer and a layer labelLayerRef.current refers to is out of the document
ClearHost(o) ==
  [layers |-> 0, ref |-> IF o.ref = "null" THEN "null" ELSE "detached"]

\* the cleanup of the load effect: labelLayerRef.current.remove() and
\* labelLayerRef.current = null
CleanupOverlay(o) ==
  [layers |-> IF o.ref = "attached" THEN o.layers - 1 ELSE o.layers, ref |-> "null"]

\* the rebuild that leaves an empty layer in the scene
rebuildOverlayKeepingEmpty(o, meta, doc) ==
  LET removed == CleanupOverlay(o)
  IN IF DOMAIN meta = {} THEN removed
     ELSE IF rebuildRoomLabels(meta, doc) = {}
          THEN [layers |-> removed.layers + 1, ref |-> "null"]
          ELSE [layers |-> removed.layers + 1, ref |-> "attached"]

\* rebuildRoomLabels on the layers of the scene: the layer of the previous
\* rebuild is removed, a layer is appended when the metadata table has keys,
\* and it is removed again when it got no text
rebuildOverlay(o, meta, doc) ==
  LET removed == CleanupOverlay(o)
  IN IF DOMAIN meta = {} THEN removed
     ELSE IF rebuildRoomLabels(meta, doc) = {}
          THEN [layers |-> (removed.layers + 1) - 1, ref |-> "null"]
          ELSE [layers |-> removed.layers + 1, ref |-> "attached"]

----------------------------------------------------------------------------
(* Numbers.  A JavaScript number is a binary floating-point value: here a   *)
(* record [k, m, e] with k = "fin" for the finite value m * 2^e, m = 0 and  *)
(* e = 0 for zero and otherwise 2^(MantissaBits-1) <= |m| < 2^MantissaBits, *)
(* k = "inf" for the infinity of sign m and k = "nan" for NaN.  Every       *)
(* operation returns the exact result rounded to nearest, ties to even, as  *)
(* IEEE 754 does, with MantissaBits for the 53 bits of a double; the        *)
(* exponent is not bounded.                                                 *)

Pow2(k) == 2 ^ k

\* a significand m of a number that is not zero has MantissaMin <= |m| < MantissaLimit
MantissaLimit == Pow2(MantissaBits)
MantissaMin == Pow2(MantissaBits - 1)

Abs(n) == IF n < 0 THEN 0 - n ELSE n

\* the numbers: finite, infinite and NaN
Float == [k : {"fin", "inf", "nan"}, m : Int, e : Int]

FZero == [k |-> "fin", m |-> 0, e |-> 0]
NaN == [k |-> "nan", m |-> 0, e |-> 0]
Infinity(sign) == [k |-> "inf", m |-> sign, e |-> 0]

\* the number nearest to n / d * 2^e, for n > 0 and d > 0
RoundPos[n \in Nat, d \in Nat, e \in Int] ==
  IF n >= d * MantissaLimit THEN RoundPos[n, 2 * d, e + 1]
  ELSE IF n < d * MantissaMin THEN RoundPos[2 * n, d, e - 1]
  ELSE LET q == n \div d
           r == n % d
           up == 2 * r > d \/ (2 * r = d /\ q % 2 = 1)
           m == IF up THEN q + 1 ELSE q
       IN IF m = MantissaLimit
          THEN [k |-> "fin", m |-> MantissaMin, e |-> e + 1]
          ELSE [k |-> "fin", m |-> m, e |-> e]

\* the number nearest to n / d * 2^e, for d # 0
Round(n, d, e) ==
  IF n = 0 THEN FZero
  ELSE LET pos == RoundPos[Abs(n), Abs(d), e]
       IN IF (n < 0) = (d < 0) THEN pos ELSE [pos EXCEPT !.m = 0 - pos.m]

\* the number of the integer literal n
Num(n) == Round(n, 1, 0)

\* the number of the decimal literal n / d
Lit(n, d) == Round(n, d, 0)

Neg[a \in Float] == IF a.k = "nan" THEN a ELSE [a EXCEPT !.m = 0 - a.m]

\* a + b
Add[a \in Float, b \in Float] ==
  IF a.k = "nan" \/ b.k = "nan" THEN NaN
  ELSE IF a.k = "inf" /\ b.k = "inf" THEN (IF a.m = b.m THEN a ELSE NaN)
  ELSE IF a.k = "inf" THEN a
  ELSE IF b.k = "inf" THEN b
  ELSE IF a.m = 0 THEN b
  ELSE IF b.m = 0 THEN a
  ELSE IF a.e - b.e > MantissaBits + 2 THEN a
  ELSE IF b.e - a.e > MantissaBits + 2 THEN b
  ELSE LET e0 == IF a.e < b.e THEN a.e ELSE b.e
       IN Round(a.m * Pow2(a.e - e0) + b.m * Pow2(b.e - e0), 1, e0)

\* a - b
Sub[a \in Float, b \in Float] == Add[a, Neg[b]]

\* a * b
Mul[a \in Float, b \in Float] ==
  IF a.k = "nan" \/ b.k = "nan" THEN NaN
  ELSE IF a.k = "inf" \/ b.k = "inf"
       THEN (IF a.m = 0 \/ b.m = 0 THEN NaN
             ELSE Infinity(IF (a.m < 0) = (b.m < 0) THEN 1 ELSE 0 - 1))
  ELSE Round(a.m * b.m, 1, a.e + b.e)

\* a / b
Div[a \in Float, b \in Float] ==
  IF a.k = "nan" \/ b.k = "nan" THEN NaN
  ELSE IF a.k = "inf" THEN (IF b.k = "inf" THEN NaN
                            ELSE Infinity(IF (a.m < 0) = (b.m < 0) THEN 1 ELSE 0 - 1))
  ELSE IF b.k = "inf" THEN FZero
  ELSE IF b.m = 0 THEN (IF a.m = 0 THEN NaN ELSE Infinity(IF a.m < 0 THEN 0 - 1 ELSE 1))
  ELSE Round(a.m, b.m, a.e - b.e)

\* a < b (false when either is NaN)
Less[a \in Float, b \in Float] ==
  IF a.k = "nan" \/ b.k = "nan" THEN FALSE
  ELSE IF a.k = "inf" THEN a.m < 0 /\ ~(b.k = "inf" /\ b.m < 0)
  ELSE IF b.k = "inf" THEN b.m > 0
  ELSE IF a.m <= 0 /\ b.m >= 0 THEN a.m < b.m
  ELSE IF a.m >= 0 /\ b.m <= 0 THEN FALSE
  ELSE IF a.m > 0 THEN a.e < b.e \/ (a.e = b.e /\ a.m < b.m)
  ELSE b.e < a.e \/ (a.e = b.e /\ a.m < b.m)

\* a === b
StrictEq[a \in Float, b \in Float] == a.k # "nan" /\ a = b

\* Math.min(a, b), Math.max(a, b)
MathMin[a \in Float, b \in Float] ==
  IF a.k = "nan" \/ b.k = "nan" THEN NaN ELSE IF Less[b, a] THEN b ELSE a
MathMax[a \in Float, b \in Float] ==
  IF a.k = "nan" \/ b.k = "nan" THEN NaN ELSE IF Less[a, b] THEN b ELSE a

\* the integer a finite integer-valued number stands for
IntOf(a) == IF a.e >= 0 THEN a.m * Pow2(a.e) ELSE a.m \div Pow2(0 - a.e)

\* the square root of a perfect square
ISqrt(n) == CHOOSE r \in 0..n : r * r = n

\* Math.hypot(a, b), for integer a and b whose squares sum to a square (the
\* pointer positions of the model)
MathHypot[a \in Float, b \in Float] ==
  IF a.k = "nan" \/ b.k = "nan" THEN NaN
  ELSE LET ia == IntOf(a)
           ib == IntOf(b)
       IN Num(ISqrt(ia * ia + ib * ib))

----------------------------------------------------------------------------
(* View transform: scale and translation of the scene in the host *)

DEFAULT_TRANSFORM == [scale |-> Num(1), x |-> FZero, y |-> FZero]

\* the clamp without its lower bound
clampScaleNoFloor(value) == MathMin[Num(3), value]

\* clampScale = (value) => Math.min(3, Math.max(0.75, value))
clampScale(value) == MathMin[Num(3), MathMax[Lit(75, 100), value]]

\* the updater that scales about the origin: the translation is kept
zoomAtOrigin(prev, factor, point) ==
  LET nextScale == clampScale(Mul[prev.scale, factor])
  IN IF StrictEq[nextScale, prev.scale] THEN prev
     ELSE [scale |-> nextScale, x |-> prev.x, y |-> prev.y]

\* the updater without the early return: the translation is computed again
\* when the clamp leaves the scale as it was
zoomAtRecomputing(prev, factor, point) ==
  LET nextScale == clampScale(Mul[prev.scale, factor])
      contentPoint == [x |-> Div[Sub[point.x, prev.x], prev.scale],
                       y |-> Div[Sub[point.y, prev.y], prev.scale]]
  IN [scale |-> nextScale,
      x |-> Sub[point.x, Mul[contentPoint.x, nextScale]],
      y |-> Sub[point.y, Mul[contentPoint.y, nextScale]]]

\* the updater zoomAt passes to setViewTransform, for the focal point it resolved
zoomAt(prev, factor, point) ==
  LET nextScale == clampScale(Mul[prev.scale, factor])
  IN IF StrictEq[nextScale, prev.scale] THEN prev
     ELSE LET contentPoint == [x |-> Div[Sub[point.x, prev.x], prev.scale],
                               y |-> Div[Sub[point.y, prev.y], prev.scale]]
          IN [scale |-> nextScale,
              x |-> Sub[point.x, Mul[contentPoint.x, nextScale]],
              y |-> Sub[point.y, Mul[contentPoint.y, nextScale]]]

\* the factors of a zoom step: 1.2 and 1 / 1.2
ZoomInFactor == Lit(12, 10)

\* a zoom-out factor that does not shrink
ZoomOutFactorUnit == Div[Num(1), Num(1)]

ZoomOutFactor == Div[Num(1), Lit(12, 10)]

----------------------------------------------------------------------------
(* State *)

VARIABLES
  floor,              \* useState floor: the active floor
  metaById,           \* useState metaById: the metadata table
  metaFetches,        \* fetches of /data/rooms.json in flight
  search,             \* useState search
  activeCategory,     \* useState activeCategory ("" is null)
  focusedSuggestionIndex, \* useState focusedSuggestionIndex
  selectionHistory,   \* useState selectionHistory
  pendingSelection,   \* pendingSelectionRef.current ("" is null)
  loads,              \* scene fetches in flight, each with the closure of its effect
  raf,                \* requestAnimationFrame callbacks queued, oldest first
  svg,                \* the scene mounted in the host, NoSvg when the host is empty
  listeners,          \* the event listeners added to scene elements and not removed
  selectedEls,        \* elements of the mounted scene with class ucc-selected
  hoverEls,           \* elements of the mounted scene with class ucc-hover
  hovered,            \* the variable hovered of the mounted scene's listeners (0 is null)
  highlightEls,       \* elements of the mounted scene with class ucc-highlight
  labelLayer,         \* text elements of the label layer of the mounted scene
  overlay,            \* how many label layers the mounted scene holds, and what
                      \* labelLayerRef.current refers to
  selLog,             \* the ids pushed to the history, oldest first (history specification)
  viewTransform,      \* useState viewTransform, and transformRef.current after the render
  activePointers,     \* activePointers.current: pointer id -> last point
  panState,           \* panState.current (NoGesture is null)
  pinchState,         \* pinchState.current (NoGesture is null)
  transformChanges,   \* how many times the view transform changed by gesture or button
  lastMove            \* the branch the last gesture took, if it was a pointer move,
                      \* and whether it changed the transform; whether the clamp
                      \* kept the scale, if it was a call of zoomAt; "floor change" when
                      \* the floor changed after the last gesture or button

vars == <<floor, metaById, metaFetches, search, activeCategory,
          focusedSuggestionIndex, selectionHistory,
          pendingSelection, loads, raf, svg, listeners, selectedEls, hoverEls,
          hovered, highlightEls, labelLayer, overlay, selLog, viewTransform,
          activePointers,
          panState, pinchState, transformChanges, lastMove>>

\* the user interface state the scene does not hold
uiVars == <<floor, metaById, metaFetches, search, activeCategory, focusedSuggestionIndex>>
\* the gesture state of the host
gestureVars ==
  <<viewTransform, activePointers, panState, pinchState, transformChanges, lastMove>>
\* the classes and listeners state of the mounted scene
domVars ==
  <<svg, listeners, selectedEls, hoverEls, hovered, highlightEls, labelLayer, overlay>>

NoSvg == [floor |-> 0, meta |-> EmptyMeta, stale |-> FALSE]

Mounted == svg # NoSvg

\* the DOM of the mounted scene
Doc == SceneDoc(svg.floor)

\* the search texts typed in the model
SearchInputs == {"", "ucc"}

\* CATEGORY_SHORTCUTS ids the model toggles
CategoryInputs == {"service", "bathroom"}

\* the ids goToRoom is called with: every room of the metadata document,
\* an element without a record and an id that is nowhere
GoToIds == ({RoomsJson[i].id : i \in 1..Len(RoomsJson)} \ {""}) \cup {"X9"}

\* the options the click handlers pass, and those the search box passes
ClickOptions == {}
SearchBoxOptions == {"updateSearch", "clearCategory", "highlight"}

\* new Map(): no pointer is tracked
NoPointers == [id \in {} |-> [x |-> FZero, y |-> FZero]]

\* null, for panState.current and pinchState.current
NoGesture == [kind |-> "none"]

Init ==
  /\ floor = 1
  /\ metaById = EmptyMeta
  /\ metaFetches \in 1..MaxMetaFetches
  /\ search = ""
  /\ activeCategory = ""
  /\ focusedSuggestionIndex = -1
  /\ selectionHistory = << >>
  /\ pendingSelection = ""
  /\ loads = << [floor |-> 1, meta |-> EmptyMeta, cleaned |-> FALSE] >>
  /\ raf = << >>
  /\ svg = NoSvg
  /\ listeners = {}
  /\ selectedEls = {}
  /\ hoverEls = {}
  /\ hovered = 0
  /\ highlightEls = {}
  /\ labelLayer = {}
  /\ overlay = NoOverlay
  /\ selLog = << >>
  /\ viewTransform = DEFAULT_TRANSFORM
  /\ activePointers = NoPointers
  /\ panState = NoGesture
  /\ pinchState = NoGesture
  /\ transformChanges = 0
  /\ lastMove = "none"

----------------------------------------------------------------------------
(* Selection history *)

\* the updater without the filter on the id: a reselected id is duplicated
pushRoomToHistoryNoDedup(meta, prev, id) ==
  LET entry == [id |-> id, name |-> id, link |-> "", description |-> ""]
      all == <<entry>> \o prev
  IN SubSeq(all, 1, Min(5, Len(all)))

\* the updater that puts the new entry last
pushRoomToHistoryAtEnd(meta, prev, id) ==
  LET entry == [id |-> id, name |-> id, link |-> "", description |-> ""]
      all == SelectSeq(prev, LAMBDA item : item.id # id) \o <<entry>>
  IN SubSeq(all, 1, Min(5, Len(all)))

\* the updater of pushRoomToHistory, for the metaById of its closure
pushRoomToHistory(meta, prev, id) ==
  LET name == IF HasMeta(meta, id) /\ meta[id].name # "" THEN meta[id].name ELSE id
      entry == [id |-> id, name |-> name,
                link |-> IF HasMeta(meta, id) THEN meta[id].link ELSE "",
                description |-> IF HasMeta(meta, id) THEN meta[id].description ELSE ""]
      without == SelectSeq(prev, LAMBDA item : item.id # id)
      all == <<entry>> \o without
  IN SubSeq(all, 1, Min(5, Len(all)))

\* applySelectionStyling succeeds: a scene is mounted and holds the id
CanStyle(id) == Mounted /\ querySelectorId(Doc, id) # 0

\* the marking that leaves the markers already there
applySelectionStylingKeeping(selected, doc, id) ==
  selected \cup {querySelectorId(doc, id)}

\* applySelectionStyling when it succeeds: every element with the class
\* ucc-selected loses it, then the target gets it
applySelectionStyling(selected, doc, id) ==
  (selected \ {node \in 1..Len(doc) : node \in selected})
    \cup {querySelectorId(doc, id)}

----------------------------------------------------------------------------
(* The load effect (useEffect "Load SVG for active floor") *)

\* the listeners the .then callback adds to the scene of floor f: one click
\* listener per region that has metadata, and the background click, mouseover
\* and mouseout listeners on the svg root (element 1). Each removal closure is
\* pushed to the cleanupFns array of the effect run that started the fetch;
\* the cleanup of that run calls the closures and then rebinds cleanupFns to a
\* new array, so a closure pushed after the cleanup (cleaned) is in an array
\* that nothing calls: registered is FALSE
MountListeners(f, meta, cleaned) ==
  {[floor |-> f, el |-> k, type |-> "click", registered |-> ~cleaned, mounted |-> TRUE] :
     k \in ClickHandlerEls(meta, SceneDoc(f))}
  \cup {[floor |-> f, el |-> 1, type |-> t, registered |-> ~cleaned, mounted |-> TRUE] :
          t \in {"bgclick", "mouseover", "mouseout"}}

\* host.innerHTML = "" (or its replacement by the next scene) takes the scene
\* out of the document; the listeners stay on its elements. Those elements
\* can no longer be reached from the document, so for them the record keeps
\* the kind of listener only
DetachScene(ls) == {[l EXCEPT !.mounted = FALSE, !.floor = 0, !.el = 0] : l \in ls}

\* cleanupFns.forEach((fn) => fn()) followed by host.innerHTML = "": the
\* registered listeners are removed, the others go with the detached scene
CleanupListeners(ls) == DetachScene({l \in ls : ~l.registered})

\* the load effect without setSelectionHistory([]): the history is kept
RunLoadEffectKeepHistory(f, meta) ==
  /\ selectionHistory' = selectionHistory
  /\ svg' = NoSvg
  /\ listeners' = CleanupListeners(listeners)
  /\ selectedEls' = {}
  /\ hoverEls' = {}
  /\ hovered' = 0
  /\ highlightEls' = {}
  /\ labelLayer' = {}
  /\ overlay' = ClearHost(CleanupOverlay(overlay))
  /\ loads' = Append([i \in 1..Len(loads) |-> [loads[i] EXCEPT !.cleaned = TRUE]],
                     [floor |-> f, meta |-> meta, cleaned |-> FALSE])

\* its cleanup and its synchronous part, run when floor or metaById changed:
\* the previous mount is torn down, the history and the host are cleared and
\* the fetch of the scene of floor f starts with the closure (f, meta)
RunLoadEffect(f, meta) ==
  /\ selectionHistory' = << >>
  /\ svg' = NoSvg
  /\ listeners' = CleanupListeners(listeners)
  /\ selectedEls' = {}
  /\ hoverEls' = {}
  /\ hovered' = 0
  /\ highlightEls' = {}
  /\ labelLayer' = {}
  /\ overlay' = ClearHost(CleanupOverlay(overlay))
  /\ loads' = Append([i \in 1..Len(loads) |-> [loads[i] EXCEPT !.cleaned = TRUE]],
                     [floor |-> f, meta |-> meta, cleaned |-> FALSE])

RemoveAt(q, i) == SubSeq(q, 1, i - 1) \o SubSeq(q, i + 1, Len(q))

\* the scene fetch loads[i] resolves: the .then callback mounts its document
LoadArrive(i) ==
  LET load == loads[i]
      doc == SceneDoc(load.floor)
  IN /\ pendingSelection # "" => Len(raf) < MaxRaf
     /\ svg' = [floor |-> load.floor, meta |-> load.meta, stale |-> load.cleaned]
     /\ listeners' = DetachScene(listeners) \cup MountListeners(load.floor, load.meta, load.cleaned)
     /\ selectedEls' = {}
     /\ hoverEls' = {}
     /\ hovered' = 0
     /\ labelLayer' = rebuildRoomLabels(load.meta, doc)
     /\ overlay' = rebuildOverlay(ClearHost(overlay), load.meta, doc)
     /\ highlightEls' = applyHighlights(search, activeCategory, metaById, doc)
     /\ raf' = IF pendingSelection # ""
               THEN Append(raf, [id |-> pendingSelection, meta |-> load.meta])
               ELSE raf
     /\ loads' = RemoveAt(loads, i)
     /\ viewTransform' = DEFAULT_TRANSFORM
     /\ UNCHANGED <<uiVars, selectionHistory, pendingSelection, selLog,
                  activePointers, panState, pinchState, transformChanges, lastMove>>

\* a .catch callback that mounts what the .then callback would have mounted
LoadFailMounting(i) == LoadArrive(i)

\* the scene fetch loads[i] rejects: the .catch callback logs
LoadFail(i) ==
  /\ loads' = RemoveAt(loads, i)
  /\ UNCHANGED <<uiVars, selectionHistory, pendingSelection, raf, domVars, selLog, gestureVars>>

\* the metadata fetch resolves: setMetaById(byId) with a new object, so every
\* callback that depends on metaById changes and the load effect runs again
MetaArrive ==
  /\ metaFetches > 0
  /\ Len(loads) < MaxLoads
  /\ metaFetches' = metaFetches - 1
  /\ metaById' = IndexById(RoomsJson)
  /\ RunLoadEffect(floor, metaById')
  /\ UNCHANGED <<floor, search, activeCategory, focusedSuggestionIndex, pendingSelection, raf, selLog, gestureVars>>

\* the metadata fetch rejects
MetaFail ==
  /\ metaFetches > 0
  /\ metaFetches' = metaFetches - 1
  /\ UNCHANGED <<floor, metaById, search, activeCategory, focusedSuggestionIndex, selectionHistory,
                 pendingSelection, loads, raf, domVars, selLog, gestureVars>>

\* a floor button: setFloor(f)
SetFloor(f) ==
  /\ f # floor
  /\ Len(loads) < MaxLoads
  /\ floor' = f
  /\ RunLoadEffect(f, metaById)
  /\ lastMove' = "floor change"
  /\ UNCHANGED <<metaById, metaFetches, search, activeCategory, focusedSuggestionIndex, pendingSelection,
                 raf, selLog, viewTransform, activePointers, panState, pinchState,
                 transformChanges>>

----------------------------------------------------------------------------
(* Programmatic navigation: goToRoom and finalizeSelection *)

\* the classes ucc-highlight after the handler and the re-render it causes:
\* applyHighlights runs when the handler calls applyHighlightsRef.current()
\* (ran) and, as an effect, when search or activeCategory changed
HighlightsAfter(search1, cat1, ran) ==
  IF Mounted /\ (ran \/ search1 # search \/ cat1 # activeCategory)
  THEN applyHighlights(search1, cat1, metaById, Doc)
  ELSE highlightEls

\* goToRoom rejecting only the ids without a record
RejectsRoomUnknownOnly(meta, id) == ~HasMeta(meta, id)

\* if (!meta || isDecorativeId(id)) return false
RejectsRoom(meta, id) == ~HasMeta(meta, id) \/ isDecorativeId(meta, id)

\* const targetFloor = meta.floor ?? floor
TargetFloor(meta, cf, id) == IF meta[id].floor = NoFloor THEN cf ELSE meta[id].floor

\* goToRoom(id, options) of the render whose closure holds metaById = meta and
\* floor = cf
goToRoom(meta, cf, id, opts) ==
  IF RejectsRoom(meta, id)
  THEN UNCHANGED vars
  ELSE
    LET search1 == IF "updateSearch" \in opts
                   THEN (IF meta[id].id # "" THEN meta[id].id ELSE id)
                   ELSE search
        cat1 == IF "clearCategory" \in opts THEN "" ELSE activeCategory
        targetFloor == TargetFloor(meta, cf, id)
    IN /\ search' = search1
       /\ activeCategory' = cat1
       /\ focusedSuggestionIndex' =
            IF "updateSearch" \in opts THEN -1 ELSE focusedSuggestionIndex
       /\ UNCHANGED <<metaById, metaFetches, raf, selLog, gestureVars>>
       /\ IF targetFloor # cf
          THEN \* another floor: defer the selection and switch
               /\ pendingSelection' = id
               /\ floor' = targetFloor
               /\ IF targetFloor # floor
                  THEN /\ Len(loads) < MaxLoads
                       /\ RunLoadEffect(targetFloor, metaById)
                  ELSE /\ highlightEls' = HighlightsAfter(search1, cat1, "highlight" \in opts)
                       /\ UNCHANGED <<selectionHistory, loads, svg, listeners, selectedEls,
                                      hoverEls, hovered, labelLayer, overlay>>
          ELSE /\ floor' = floor
               /\ UNCHANGED <<loads, svg, listeners, hoverEls, hovered, labelLayer, overlay>>
               /\ IF CanStyle(id)
                  THEN \* finalizeSelection succeeds
                       /\ selectedEls' = applySelectionStyling(selectedEls, Doc, id)
                       /\ pendingSelection' = ""
                       /\ selectionHistory' = pushRoomToHistory(meta, selectionHistory, id)
                       /\ highlightEls' = HighlightsAfter(search1, cat1, "highlight" \in opts)
                  ELSE /\ pendingSelection' = id
                       /\ highlightEls' = HighlightsAfter(search1, cat1, FALSE)
                       /\ UNCHANGED <<selectionHistory, selectedEls>>

\* goToRoom called from the current render (the search box: a suggestion
\* click, Enter) with any id and options
GoToRoomCall(id, opts) == goToRoom(metaById, floor, id, opts)

\* the requestAnimationFrame callback queued at mount: finalizeSelection(pending)
\* of the mounting closure, then applyHighlightsRef.current()
RafFire ==
  /\ raf # << >>
  /\ raf' = Tail(raf)
  /\ LET r == Head(raf)
     IN IF CanStyle(r.id)
        THEN /\ selectedEls' = applySelectionStyling(selectedEls, Doc, r.id)
             /\ pendingSelection' = ""
             /\ selectionHistory' = pushRoomToHistory(r.meta, selectionHistory, r.id)
             /\ highlightEls' = applyHighlights(search, activeCategory, metaById, Doc)
        ELSE UNCHANGED <<selectedEls, pendingSelection, selectionHistory, highlightEls>>
  /\ UNCHANGED <<uiVars, loads, svg, listeners, hoverEls, hovered, labelLayer, overlay, selLog, gestureVars>>

----------------------------------------------------------------------------
(* Hit-region resolver: the listeners the load effect attaches at mount *)

\* the elements with a click handler that a click on target t passes, from
\* the target up
HandlersOnPath(t) ==
  SeqToSet(AncestorsOrSelf(Doc, t)) \cap ClickHandlerEls(svg.meta, Doc)

\* the resolved target is rejected by a handler of the mounted scene
Rejected(hit) ==
  \/ hit = 0
  \/ Doc[hit].tag = "svg"
  \/ isDecorativeElement(svg.meta, Doc, hit)
  \/ isContainerId(Doc[hit].id)

\* a click on element t that reaches a region's click handler
ClickRegion(t) ==
  /\ Mounted
  /\ t \in 1..Len(Doc)
  /\ HandlersOnPath(t) # {}
  /\ LET hit == closestId(Doc, t)
     IN IF Rejected(hit)
        THEN UNCHANGED vars
        ELSE goToRoom(svg.meta, svg.floor, Doc[hit].id, ClickOptions)

\* a background click that also empties the history
BgClickClearsHistory(t) ==
  /\ Mounted
  /\ t \in 1..Len(Doc)
  /\ HandlersOnPath(t) = {}
  /\ selectedEls' = {}
  /\ selectionHistory' = << >>
  /\ UNCHANGED <<uiVars, pendingSelection, loads, raf, svg, listeners,
                 hoverEls, hovered, highlightEls, labelLayer, overlay, selLog, gestureVars>>

\* a click on element t that no region handler stops: bgClick on the root
BgClick(t) ==
  /\ Mounted
  /\ t \in 1..Len(Doc)
  /\ HandlersOnPath(t) = {}
  /\ selectedEls' = {}
  /\ UNCHANGED <<uiVars, selectionHistory, pendingSelection, loads, raf, svg, listeners,
                 hoverEls, hovered, highlightEls, labelLayer, overlay, selLog, gestureVars>>

\* mouseover on element t: onOver
MouseOver(t) ==
  /\ Mounted
  /\ t \in 1..Len(Doc)
  /\ LET hit == closestId(Doc, t)
     IN IF Rejected(hit) \/ hovered = hit
        THEN UNCHANGED <<hoverEls, hovered>>
        ELSE /\ hoverEls' = (hoverEls \ {hovered}) \cup {hit}
             /\ hovered' = hit
  /\ UNCHANGED <<uiVars, selectionHistory, pendingSelection, loads, raf, svg, listeners,
                 selectedEls, highlightEls, labelLayer, overlay, selLog, gestureVars>>

\* mouseout towards element rel (0: the pointer leaves the scene): onOut
MouseOut(rel) ==
  /\ Mounted
  /\ rel \in 0..Len(Doc)
  /\ LET to == IF rel = 0 THEN 0 ELSE closestId(Doc, rel)
     IN IF to = hovered
        THEN UNCHANGED <<hoverEls, hovered>>
        ELSE /\ hoverEls' = hoverEls \ {hovered}
             /\ hovered' = 0
  /\ UNCHANGED <<uiVars, selectionHistory, pendingSelection, loads, raf, svg, listeners,
                 selectedEls, highlightEls, labelLayer, overlay, selLog, gestureVars>>

----------------------------------------------------------------------------
(* Search text and category shortcuts *)

\* typing in the search box: setSearch(s), then the applyHighlights effect
SetSearch(s) ==
  /\ s # search
  /\ search' = s
  /\ focusedSuggestionIndex' = -1
  /\ highlightEls' = HighlightsAfter(s, activeCategory, FALSE)
  /\ UNCHANGED <<floor, metaById, metaFetches, activeCategory, selectionHistory,
                 pendingSelection, loads, raf, svg, listeners, selectedEls, hoverEls, hovered,
                 labelLayer, overlay, selLog, gestureVars>>

\* a category shortcut: setActiveCategory(prev => prev === c ? null : c)
ToggleCategory(c) ==
  /\ activeCategory' = IF activeCategory = c THEN "" ELSE c
  /\ highlightEls' = HighlightsAfter(search, activeCategory', FALSE)
  /\ UNCHANGED <<floor, metaById, metaFetches, search, focusedSuggestionIndex,
                 selectionHistory,
                 pendingSelection, loads, raf, svg, listeners, selectedEls, hoverEls, hovered,
                 labelLayer, overlay, selLog, gestureVars>>

----------------------------------------------------------------------------
(* The keys of the search box: onKeyDown *)

\* the ArrowDown updater that does not wrap
arrowDownNoWrap(prev, length) == prev + 1

\* the updater of ArrowDown, for a list of the given length
arrowDown(prev, length) ==
  LET next == prev + 1
  IN IF next >= length THEN 0 ELSE next

\* the updater of ArrowUp
arrowUp(prev, length) ==
  LET next == prev - 1
  IN IF next < 0 THEN length - 1 ELSE next

\* Enter: the suggestion it picks (0-based; -1 for none)
EnterIndex(list) ==
  IF focusedSuggestionIndex >= 0 THEN focusedSuggestionIndex
  ELSE IF Len(list) > 0 THEN 0
  ELSE -1

\* onKeyDown of the search input, for the keys it handles
onKeyDown(key) ==
  LET list == suggestions(search, metaById)
      index == EnterIndex(list)
      exact == getExactMatch(search, metaById)
      others == <<floor, metaById, metaFetches, search, activeCategory,
                  selectionHistory, pendingSelection, loads, raf, domVars, selLog,
                  gestureVars>>
  IN IF key = "ArrowDown"
     THEN /\ focusedSuggestionIndex' =
               IF Len(list) = 0 THEN focusedSuggestionIndex
               ELSE arrowDown(focusedSuggestionIndex, Len(list))
          /\ UNCHANGED others
     ELSE IF key = "ArrowUp"
     THEN /\ focusedSuggestionIndex' =
               IF Len(list) = 0 THEN focusedSuggestionIndex
               ELSE arrowUp(focusedSuggestionIndex, Len(list))
          /\ UNCHANGED others
     ELSE IF key = "Enter"
     THEN IF index >= 0 THEN GoToRoomCall(list[index + 1], SearchBoxOptions)
          ELSE IF exact # "" THEN GoToRoomCall(exact, SearchBoxOptions)
          ELSE UNCHANGED vars
     ELSE IF key = "Escape"
     THEN /\ focusedSuggestionIndex' = -1
          /\ UNCHANGED others
     ELSE UNCHANGED vars

----------------------------------------------------------------------------
(* Zoom, pan and pinch (the toolbar handlers and the gesture effect) *)

\* host.getBoundingClientRect(): the size of the host element
HostWidth == 16
HostHeight == 12

\* the pointer ids of the pointer events
PointerIds == 1..MaxPointers

\* getRelativePoint(ev) for the events of the model: three points of the host
\* on one line, at distances 5 and 10
Pt(px, py) == [x |-> Num(px), y |-> Num(py)]
GesturePoints == {Pt(0, 0), Pt(3, 4), Pt(6, 8)}

\* ev.deltaY of the wheel events
WheelDeltas == {0 - 1, 1}

\* setViewTransform(t) and the transform effect: transformRef.current follows
SetViewTransform(t) ==
  /\ viewTransform' = t
  /\ transformChanges' = IF t = viewTransform THEN transformChanges
                         ELSE transformChanges + 1

\* zoomAt(factor) without focal: the centre of the host
HostCentre == [x |-> Div[Num(HostWidth), Num(2)], y |-> Div[Num(HostHeight), Num(2)]]

\* onWheel: ignored while no scene is mounted
Wheel(deltaY, point) ==
  /\ Mounted
  /\ LET direction == IF deltaY > 0 THEN ZoomOutFactor ELSE ZoomInFactor
     IN SetViewTransform(zoomAt(viewTransform, direction, point))
  /\ lastMove' = "none"
  /\ UNCHANGED <<uiVars, selectionHistory, pendingSelection, loads, raf, domVars,
                 selLog, activePointers, panState, pinchState>>

handleZoomIn ==
  /\ SetViewTransform(zoomAt(viewTransform, ZoomInFactor, HostCentre))
  /\ lastMove' = "none"
  /\ UNCHANGED <<uiVars, selectionHistory, pendingSelection, loads, raf, domVars,
                 selLog, activePointers, panState, pinchState>>

handleZoomOut ==
  /\ SetViewTransform(zoomAt(viewTransform, ZoomOutFactor, HostCentre))
  /\ lastMove' = "none"
  /\ UNCHANGED <<uiVars, selectionHistory, pendingSelection, loads, raf, domVars,
                 selLog, activePointers, panState, pinchState>>

handleResetZoom ==
  /\ SetViewTransform(DEFAULT_TRANSFORM)
  /\ lastMove' = "none"
  /\ UNCHANGED <<uiVars, selectionHistory, pendingSelection, loads, raf, domVars,
                 selLog, activePointers, panState, pinchState>>

\* activePointers.current.set(id, point)
SetPointer(pointers, id, point) ==
  [i \in (DOMAIN pointers) \cup {id} |-> IF i = id THEN point ELSE pointers[i]]

\* Array.from(activePointers.current.values()) when two pointers are tracked;
\* the distance and the midpoint do not depend on the order
FirstPoint(pointers) == pointers[CHOOSE i \in DOMAIN pointers : TRUE]
SecondPoint(pointers) ==
  pointers[CHOOSE i \in DOMAIN pointers : i # (CHOOSE j \in DOMAIN pointers : TRUE)]

PointerDistance(p1, p2) == MathHypot[Sub[p1.x, p2.x], Sub[p1.y, p2.y]]
PointerMidpoint(p1, p2) ==
  [x |-> Div[Add[p1.x, p2.x], Num(2)], y |-> Div[Add[p1.y, p2.y], Num(2)]]

\* onPointerDown: ignored while no scene is mounted.  pointerIds is no field
\* of the code's pinch state: it records which two pointers started the pinch
PointerDown(id, point) ==
  /\ Mounted
  /\ LET pointers == SetPointer(activePointers, id, point)
         size == Cardinality(DOMAIN pointers)
         p1 == FirstPoint(pointers)
         p2 == SecondPoint(pointers)
         midpoint == PointerMidpoint(p1, p2)
         origin == viewTransform
     IN /\ activePointers' = pointers
        /\ IF size = 1
           THEN /\ panState' = [kind |-> "pan", pointerId |-> id, start |-> point,
                                origin |-> origin]
                /\ pinchState' = NoGesture
           ELSE IF size = 2
           THEN /\ pinchState' =
                     [kind |-> "pinch",
                      initialDistance |-> PointerDistance(p1, p2),
                      midpointContent |->
                        [x |-> Div[Sub[midpoint.x, origin.x], origin.scale],
                         y |-> Div[Sub[midpoint.y, origin.y], origin.scale]],
                      origin |-> origin,
                      pointerIds |-> DOMAIN pointers]
                /\ panState' = NoGesture
           ELSE UNCHANGED <<panState, pinchState>>
  /\ lastMove' = "none"
  /\ UNCHANGED <<uiVars, selectionHistory, pendingSelection, loads, raf, domVars,
                 selLog, viewTransform, transformChanges>>

\* the pinch branch without the guard on initialDistance
pinchMoveUnguarded(pinch, p1, p2, prev) ==
  LET distance == PointerDistance(p1, p2)
      midpoint == PointerMidpoint(p1, p2)
      scaleFactor == Div[distance, pinch.initialDistance]
      targetScale == clampScale(Mul[pinch.origin.scale, scaleFactor])
      contentPoint == pinch.midpointContent
  IN [scale |-> targetScale,
      x |-> Sub[midpoint.x, Mul[contentPoint.x, targetScale]],
      y |-> Sub[midpoint.y, Mul[contentPoint.y, targetScale]]]

\* the pinch branch that scales the transform in effect instead of the
\* transform the pinch started from
pinchMoveCumulative(pinch, p1, p2, prev) ==
  LET distance == PointerDistance(p1, p2)
      midpoint == PointerMidpoint(p1, p2)
  IN IF StrictEq[pinch.initialDistance, FZero] THEN prev
     ELSE LET scaleFactor == Div[distance, pinch.initialDistance]
              targetScale == clampScale(Mul[prev.scale, scaleFactor])
              contentPoint == pinch.midpointContent
          IN [scale |-> targetScale,
              x |-> Sub[midpoint.x, Mul[contentPoint.x, targetScale]],
              y |-> Sub[midpoint.y, Mul[contentPoint.y, targetScale]]]

\* the pinch branch of onPointerMove: the transform it sets (prev when the
\* move is ignored)
pinchMove(pinch, p1, p2, prev) ==
  LET distance == PointerDistance(p1, p2)
      midpoint == PointerMidpoint(p1, p2)
  IN IF StrictEq[pinch.initialDistance, FZero] THEN prev
     ELSE LET scaleFactor == Div[distance, pinch.initialDistance]
              targetScale == clampScale(Mul[pinch.origin.scale, scaleFactor])
              contentPoint == pinch.midpointContent
          IN [scale |-> targetScale,
              x |-> Sub[midpoint.x, Mul[contentPoint.x, targetScale]],
              y |-> Sub[midpoint.y, Mul[contentPoint.y, targetScale]]]

\* the pan branch that adds the pointer's position instead of its movement
panMoveAbsolute(pan, point) ==
  [scale |-> pan.origin.scale,
   x |-> Add[pan.origin.x, point.x],
   y |-> Add[pan.origin.y, point.y]]

\* the pan branch of onPointerMove: the transform it sets
panMove(pan, point) ==
  LET dx == Sub[point.x, pan.start.x]
      dy == Sub[point.y, pan.start.y]
  IN [scale |-> pan.origin.scale,
      x |-> Add[pan.origin.x, dx],
      y |-> Add[pan.origin.y, dy]]

\* which branch of onPointerMove a move of pointer id takes
PinchBranch(pointers) ==
  Cardinality(DOMAIN pointers) = 2 /\ pinchState.kind = "pinch"
PanBranch(pointers, id) ==
  /\ ~PinchBranch(pointers)
  /\ Cardinality(DOMAIN pointers) = 1
  /\ panState.kind = "pan"
  /\ panState.pointerId = id

\* onPointerMove: ignored for a pointer that is not tracked
PointerMove(id, point) ==
  /\ id \in DOMAIN activePointers
  /\ LET pointers == SetPointer(activePointers, id, point)
     IN /\ activePointers' = pointers
        /\ IF PinchBranch(pointers)
           THEN /\ SetViewTransform(pinchMove(pinchState, FirstPoint(pointers),
                                              SecondPoint(pointers), viewTransform))
                /\ lastMove' = IF viewTransform' = viewTransform THEN "pinch, same"
                               ELSE "pinch, changed"
           ELSE IF PanBranch(pointers, id)
           THEN /\ SetViewTransform(panMove(panState, point))
                /\ lastMove' = IF viewTransform' = viewTransform THEN "pan, same"
                               ELSE "pan, changed"
           ELSE /\ UNCHANGED <<viewTransform, transformChanges>>
                /\ lastMove' = "ignored"
  /\ UNCHANGED <<uiVars, selectionHistory, pendingSelection, loads, raf, domVars,
                 selLog, panState, pinchState>>

\* the pan state after clearPointer that hands the pan to the pointer left
panAfterClearResuming(pan, pointers, id) ==
  IF Cardinality(DOMAIN pointers) = 1
  THEN LET rest == CHOOSE i \in DOMAIN pointers : TRUE
       IN [kind |-> "pan", pointerId |-> rest, start |-> pointers[rest],
           origin |-> viewTransform]
  ELSE NoGesture

\* the pan state after a clearPointer that keeps it
panAfterClearKeeping(pan, pointers, id) == pan

\* the pan state after clearPointer(id); pointers are those still tracked
panAfterClear(pan, pointers, id) ==
  IF pan.kind = "pan" /\ pan.pointerId = id THEN NoGesture ELSE pan

\* clearPointer: pointerup, pointercancel and pointerleave
clearPointer(id) ==
  /\ LET pointers == [i \in (DOMAIN activePointers) \ {id} |-> activePointers[i]]
     IN /\ activePointers' = pointers
        /\ panState' = panAfterClear(panState, pointers, id)
        /\ pinchState' = IF Cardinality(DOMAIN pointers) < 2 THEN NoGesture
                         ELSE pinchState
  /\ lastMove' = "none"
  /\ UNCHANGED <<uiVars, selectionHistory, pendingSelection, loads, raf, domVars,
                 selLog, viewTransform, transformChanges>>

----------------------------------------------------------------------------
(* Specifications.  The hover markers, the highlight markers and the       *)
(* selection (marker, pending request, history) do not read each other;    *)
(* each specification lets the scene lifecycle run together with one of    *)
(* them.                                                                   *)

\* metadata and scene fetches, floor buttons
Loading ==
  \/ MetaArrive
  \/ MetaFail
  \/ \E f \in Floors : SetFloor(f)
  \/ \E i \in 1..Len(loads) : LoadArrive(i)
  \/ \E i \in 1..Len(loads) : LoadFail(i)

\* the scene lifecycle: loading and the deferred selections
Lifecycle ==
  \/ Loading
  \/ RafFire

\* lifecycle and selection: clicks and goToRoom without options
Next ==
  \/ Lifecycle
  \/ \E id \in GoToIds : GoToRoomCall(id, ClickOptions)
  \/ \E t \in 1..Len(Doc) : ClickRegion(t)
  \/ \E t \in 1..Len(Doc) : BgClick(t)

Spec == Init /\ [][Next]_vars

\* loading and hover (no selection is requested, so none is deferred)
NextHover ==
  \/ Loading
  \/ \E t \in 1..Len(Doc) : MouseOver(t)
  \/ \E rel \in 0..Len(Doc) : MouseOut(rel)

SpecHover == Init /\ [][NextHover]_vars

\* the floors whose scene fetch rejects every time: the floor shown first
BrokenFloors == {1}

\* loading with a server that has no scene for BrokenFloors, and hover
NextFetch ==
  \/ MetaArrive
  \/ MetaFail
  \/ \E f \in Floors : SetFloor(f)
  \/ \E i \in 1..Len(loads) : loads[i].floor \notin BrokenFloors /\ LoadArrive(i)
  \/ \E i \in 1..Len(loads) : loads[i].floor \in BrokenFloors /\ LoadFail(i)
  \/ \E t \in 1..Len(Doc) : MouseOver(t)
  \/ \E rel \in 0..Len(Doc) : MouseOut(rel)

SpecFetch == Init /\ [][NextFetch]_vars

\* the ids goToRoom is called with under the search box's options: a room of
\* each floor, the decorative record and an id without a record
SearchBoxIds == {"UCC100", "UCC146", "Atrium", "X9"}

\* lifecycle, search text, category shortcuts, goToRoom as the search box
\* calls it and background clicks
NextSearch ==
  \/ Lifecycle
  \/ \E id \in SearchBoxIds : GoToRoomCall(id, SearchBoxOptions)
  \/ \E t \in 1..Len(Doc) : BgClick(t)
  \/ \E s \in SearchInputs : SetSearch(s)
  \/ \E c \in CategoryInputs : ToggleCategory(c)

SpecSearch == Init /\ [][NextSearch]_vars

\* the gestures of the host and the toolbar buttons
Gestures ==
  \/ \E d \in WheelDeltas : Wheel(d, Pt(3, 4))
  \/ handleZoomIn
  \/ handleZoomOut
  \/ handleResetZoom
  \/ \E id \in PointerIds, p \in GesturePoints : PointerDown(id, p)
  \/ \E id \in PointerIds, p \in GesturePoints : PointerMove(id, p)
  \/ \E id \in PointerIds : clearPointer(id)

\* the gestures do not read the metadata table: its fetch runs once
GestureInit == Init /\ metaFetches = 1

\* the scene mount and gestures, up to MaxTransformChanges changes of the transform
NextGesture ==
  \/ \E i \in 1..Len(loads) : LoadArrive(i)
  \/ Gestures /\ transformChanges' <= MaxTransformChanges

SpecGesture == GestureInit /\ [][NextGesture]_vars

\* the pointer ids of a touch screen with three fingers
TouchIds == {1, 2, 3}

\* getRelativePoint(ev) for the touch events: two points at distance 5
TouchPoints == {Pt(0, 0), Pt(3, 4)}

\* the scene mount and the pointer events of three fingers, up to
\* MaxTransformChanges changes of the transform
NextTouch ==
  \/ \E i \in 1..Len(loads) : LoadArrive(i)
  \/ /\ \/ \E id \in TouchIds, p \in TouchPoints : PointerDown(id, p)
        \/ \E id \in TouchIds, p \in TouchPoints : PointerMove(id, p)
        \/ \E id \in TouchIds : clearPointer(id)
     /\ transformChanges' <= MaxTransformChanges

SpecTouch == GestureInit /\ [][NextTouch]_vars

\* floor changes, scene mounts and the pointer events of two fingers, up to
\* MaxTransformChanges changes of the transform
NextFloorTouch ==
  \/ \E f \in Floors : SetFloor(f)
  \/ \E i \in 1..Len(loads) : LoadArrive(i)
  \/ /\ \/ \E id \in PointerIds, p \in TouchPoints : PointerDown(id, p)
        \/ \E id \in PointerIds, p \in TouchPoints : PointerMove(id, p)
        \/ \E id \in PointerIds : clearPointer(id)
     /\ transformChanges' <= MaxTransformChanges

SpecFloorTouch == GestureInit /\ [][NextFloorTouch]_vars

\* floor changes, scene fetches that resolve or fail, the wheel and the
\* toolbar buttons, up to MaxTransformChanges changes of the transform
NextFloorZoom ==
  \/ \E f \in Floors : SetFloor(f)
  \/ \E i \in 1..Len(loads) : LoadArrive(i)
  \/ \E i \in 1..Len(loads) : LoadFail(i)
  \/ (\E d \in WheelDeltas : Wheel(d, Pt(3, 4))) /\ transformChanges' <= MaxTransformChanges
  \/ handleZoomIn /\ transformChanges' <= MaxTransformChanges
  \/ handleZoomOut /\ transformChanges' <= MaxTransformChanges
  \/ handleResetZoom

SpecFloorZoom == GestureInit /\ [][NextFloorZoom]_vars

\* the numbers of [0.75, 3]
ScaleInputs ==
  {sc \in [k : {"fin"}, m : MantissaMin..(MantissaLimit - 1),
           e : (0 - MantissaBits)..(2 - MantissaBits)] :
     ~Less[sc, clampScale(sc)] /\ ~Less[clampScale(sc), sc]}

\* the translations the zoom-out specification starts from
TranslationInputs == {Num(0), Num(0 - 10)}

\* floor 1 is mounted, no pointer is down, and the view transform is any
\* transform a sequence of gestures can have left
ZoomOutInit ==
  /\ floor = 1
  /\ metaById = EmptyMeta
  /\ metaFetches = 0
  /\ search = ""
  /\ activeCategory = ""
  /\ focusedSuggestionIndex = -1
  /\ selectionHistory = << >>
  /\ pendingSelection = ""
  /\ loads = << >>
  /\ raf = << >>
  /\ svg = [floor |-> 1, meta |-> EmptyMeta, stale |-> FALSE]
  /\ listeners = MountListeners(1, EmptyMeta, FALSE)
  /\ selectedEls = {}
  /\ hoverEls = {}
  /\ hovered = 0
  /\ highlightEls = {}
  /\ labelLayer = rebuildRoomLabels(EmptyMeta, SceneDoc(1))
  /\ overlay = rebuildOverlay(NoOverlay, EmptyMeta, SceneDoc(1))
  /\ selLog = << >>
  /\ viewTransform \in [scale : ScaleInputs, x : TranslationInputs, y : {Num(0)}]
  /\ activePointers = NoPointers
  /\ panState = NoGesture
  /\ pinchState = NoGesture
  /\ transformChanges = 0
  /\ lastMove = "none"

\* a zoom-out step: the toolbar button, or the wheel turned down over a point
ZoomOutStep ==
  \/ handleZoomOut
  \/ Wheel(1, Pt(3, 4))

\* zoom-out steps only; the user keeps zooming out
SpecZoomOut == ZoomOutInit /\ [][ZoomOutStep]_vars /\ WF_vars(ZoomOutStep)

\* the factors and focal points zoomAt is applied to: the two steps of the
\* handlers, no change, a halving and a factor that is clamped
FocalFactors == {ZoomInFactor, ZoomOutFactor, Num(1), Lit(1, 2), Num(10)}
FocalPoints == GesturePoints \cup {HostCentre, [x |-> Lit(1, 10), y |-> Lit(7, 3)]}

\* zoomAt(factor, focal) on a mounted scene
ZoomAtCall(factor, point) ==
  /\ SetViewTransform(zoomAt(viewTransform, factor, point))
  /\ lastMove' = IF StrictEq[clampScale(Mul[viewTransform.scale, factor]),
                             viewTransform.scale]
                 THEN "zoom, scale kept" ELSE "zoom"
  /\ UNCHANGED <<uiVars, selectionHistory, pendingSelection, loads, raf, domVars,
                 selLog, activePointers, panState, pinchState>>

\* zoomAt as a function: MaxFocalCalls calls that change the transform, from
\* any transform, factor and point
NextFocal ==
  \E f \in FocalFactors, p \in FocalPoints :
    ZoomAtCall(f, p) /\ transformChanges' <= MaxFocalCalls

SpecFocal == ZoomOutInit /\ [][NextFocal]_vars

\* the rooms of the metadata documents of the suggestions specification:
\* every score, a decorative record, a record no query matches, an id in
\* lower case, and more than eight matches of one query
SuggestRooms ==
  << Room("UCC146", "Meeting Room", "", 2, "", CatAbsent, CatsAbsent, FALSE),
     Room("UCC100", "UCC Lab", "", 1, "", CatAbsent, CatsAbsent, FALSE),
     Room("UCC1", "", "", 1, "", CatAbsent, CatsAbsent, FALSE),
     Room("A1", "UCC1 annex", "", 1, "", CatAbsent, CatsAbsent, FALSE),
     Room("XUCC12", "Store", "", 1, "", CatAbsent, CatsAbsent, FALSE),
     Room("B2", "old ucc1 wing", "", 1, "", CatAbsent, CatsAbsent, FALSE),
     Room("UCC12", "", "", 1, "", CatAbsent, CatsAbsent, TRUE),
     Room("UCC110", "", "", 1, "", CatAbsent, CatsAbsent, FALSE),
     Room("UCC120", "", "", 1, "", CatAbsent, CatsAbsent, FALSE),
     Room("ucc105", "", "", 1, "", CatAbsent, CatsAbsent, FALSE),
     Room("Z9", "Lab", "", 1, "", CatAbsent, CatsAbsent, FALSE) >>

\* the metadata documents: the two rooms UCC146 and UCC100, and the documents
\* that leave out at most three of SuggestRooms
SuggestDocuments ==
  {<<SuggestRooms[1], SuggestRooms[2]>>}
    \cup {SelectSeq(SuggestRooms, LAMBDA r : r.id \notin out) :
            out \in {o \in SUBSET {SuggestRooms[i].id : i \in 1..Len(SuggestRooms)} :
                       Cardinality(o) <= 3}}

\* the texts typed in the search box
SuggestQueries == {"", "ucc1", " UCC1 ", "lab", "u"}

\* a metadata document of docs has arrived and no scene is mounted
SearchBoxInit(docs) ==
  /\ floor = 1
  /\ metaById \in {IndexById(doc) : doc \in docs}
  /\ metaFetches = 0
  /\ search = ""
  /\ activeCategory = ""
  /\ focusedSuggestionIndex = -1
  /\ selectionHistory = << >>
  /\ pendingSelection = ""
  /\ loads = << >>
  /\ raf = << >>
  /\ svg = NoSvg
  /\ listeners = {}
  /\ selectedEls = {}
  /\ hoverEls = {}
  /\ hovered = 0
  /\ highlightEls = {}
  /\ labelLayer = {}
  /\ overlay = NoOverlay
  /\ selLog = << >>
  /\ viewTransform = DEFAULT_TRANSFORM
  /\ activePointers = NoPointers
  /\ panState = NoGesture
  /\ pinchState = NoGesture
  /\ transformChanges = 0
  /\ lastMove = "none"

SuggestInit == SearchBoxInit(SuggestDocuments)

\* typing in the search box: the suggestions memo is a function of the text
\* and the metadata table
NextSuggest == \E s \in SuggestQueries : SetSearch(s)

SpecSuggest == SuggestInit /\ [][NextSuggest]_vars

\* the keys onKeyDown handles
Keys == {"ArrowDown", "ArrowUp", "Enter", "Escape"}

\* typing in the search box and its keys
NextKeys ==
  \/ \E s \in SuggestQueries : SetSearch(s)
  \/ ToggleCategory("service")
  \/ \E key \in Keys : onKeyDown(key)

\* the metadata documents of the keys specification: the two rooms; the
\* rooms UCC146, UCC100, UCC1, A1 and the decorative UCC12; and these
\* without the room whose id is "UCC1"
KeyRooms == SelectSeq(SuggestRooms, LAMBDA r : r.id \in {"UCC146", "UCC100", "UCC1", "A1", "UCC12"})
KeyDocuments ==
  { <<SuggestRooms[1], SuggestRooms[2]>>,
    KeyRooms,
    SelectSeq(KeyRooms, LAMBDA r : r.id # "UCC1") }

KeysInit == SearchBoxInit(KeyDocuments)

SpecKeys == KeysInit /\ [][NextKeys]_vars

\* loading, floor changes and the search text typed with and without padding
NextHighlight ==
  \/ MetaArrive
  \/ \E f \in Floors : SetFloor(f)
  \/ \E i \in 1..Len(loads) : LoadArrive(i)
  \/ \E s \in SuggestQueries : SetSearch(s)

SpecHighlight == GestureInit /\ [][NextHighlight]_vars

\* the metadata documents of the label specification: the record of R1 with
\* each name (present, absent, blank, padded), category set and decorative
\* flag, next to the records of R2 and of the wrapper groups; and a document
\* without a record of R1
LabelNames == {"Lab", "Meeting Room", "", "  ", " Gym "}
LabelCategories ==
  { <<CatAbsent, CatsAbsent>>,
    <<CatString("Bathroom"), CatsAbsent>>,
    <<CatString("office"), Cats(<<"bathroom">>)>> }
LabelFixedRooms ==
  << Room("R2", "Hall", "", 1, "", CatAbsent, CatsAbsent, FALSE),
     Room("floor1", "Ground", "", 1, "", CatAbsent, CatsAbsent, FALSE),
     Room("Layer_1", "Plan", "", 1, "", CatAbsent, CatsAbsent, FALSE) >>
LabelDocuments ==
  {LabelFixedRooms}
    \cup {<<Room("R1", name, "", 1, "", c[1], c[2], dec)>> \o LabelFixedRooms :
            name \in LabelNames, c \in LabelCategories, dec \in BOOLEAN}

\* the metadata document has arrived and the fetch of a scene is in flight
LabelInit ==
  /\ floor \in LabelFloors
  /\ metaById \in {IndexById(doc) : doc \in LabelDocuments}
  /\ metaFetches = 0
  /\ search = ""
  /\ activeCategory = ""
  /\ focusedSuggestionIndex = -1
  /\ selectionHistory = << >>
  /\ pendingSelection = ""
  /\ loads = <<[floor |-> floor, meta |-> metaById, cleaned |-> FALSE]>>
  /\ raf = << >>
  /\ svg = NoSvg
  /\ listeners = {}
  /\ selectedEls = {}
  /\ hoverEls = {}
  /\ hovered = 0
  /\ highlightEls = {}
  /\ labelLayer = {}
  /\ overlay = NoOverlay
  /\ selLog = << >>
  /\ viewTransform = DEFAULT_TRANSFORM
  /\ activePointers = NoPointers
  /\ panState = NoGesture
  /\ pinchState = NoGesture
  /\ transformChanges = 0
  /\ lastMove = "none"

\* the scene mounts, its labels are built, and the pointer moves over it
NextLabel ==
  \/ \E i \in 1..Len(loads) : LoadArrive(i)
  \/ \E t \in 1..Len(Doc) : MouseOver(t)
  \/ \E rel \in 0..Len(Doc) : MouseOut(rel)

SpecLabel == LabelInit /\ [][NextLabel]_vars

\* the selection history alone: any sequence of selections on a mounted floor
HistoryIds == {"UCC100", "UCC146", "WC1", "UCC200", "X9", "Trim"}

HistoryInit ==
  /\ floor = 1
  /\ metaById = IndexById(RoomsJson)
  /\ metaFetches = 0
  /\ search = ""
  /\ activeCategory = ""
  /\ focusedSuggestionIndex = -1
  /\ selectionHistory = << >>
  /\ pendingSelection = ""
  /\ loads = << >>
  /\ raf = << >>
  /\ svg = NoSvg
  /\ listeners = {}
  /\ selectedEls = {}
  /\ hoverEls = {}
  /\ hovered = 0
  /\ highlightEls = {}
  /\ labelLayer = {}
  /\ overlay = NoOverlay
  /\ selLog = << >>
  /\ viewTransform = DEFAULT_TRANSFORM
  /\ activePointers = NoPointers
  /\ panState = NoGesture
  /\ pinchState = NoGesture
  /\ transformChanges = 0
  /\ lastMove = "none"

\* pushRoomToHistory(id): setSelectionHistory with its updater
PushRoom(id) ==
  /\ Len(selLog) < MaxSelections
  /\ selectionHistory' = pushRoomToHistory(metaById, selectionHistory, id)
  /\ selLog' = Append(selLog, id)
  /\ UNCHANGED <<uiVars, pendingSelection, loads, raf, domVars, gestureVars>>

NextHistory == \E id \in HistoryIds : PushRoom(id)

SpecHistory == HistoryInit /\ [][NextHistory]_vars

----------------------------------------------------------------------------
(* Claims *)

\* the ids of the history entries, newest first
HistoryIdsOf(h) == [i \in 1..Len(h) |-> h[i].id]

\* the elements of the mounted scene whose metadata record is decorative
DecorativeEls ==
  {k \in 1..Len(Doc) : isDecorativeId(metaById, Doc[k].id)}

\* C1: the mounted scene, if any, is the scene of the active floor, whatever
\* order the scene fetches complete in (a superseded fetch is never mounted).
C1_MountedSceneIsActiveFloor == Mounted => svg.floor = floor

\* C2: goToRoom on a region whose metadata floor differs from the active floor
\* switches the floor and defers the selection (the request is pending, the host
\* is empty, nothing is marked and nothing is pushed to the history); and when
\* the deferred selection of a region with a declared floor is applied, the
\* mounted scene is the scene of that floor, never the scene of another floor.
C2_CrossFloorDefers ==
  [][ /\ \A id \in GoToIds :
           ( /\ GoToRoomCall(id, ClickOptions)
             /\ ~RejectsRoom(metaById, id)
             /\ metaById[id].floor \notin {NoFloor, floor} )
           => ( /\ floor' = metaById[id].floor
                /\ pendingSelection' = id
                /\ ~Mounted'
                /\ selectedEls' = {}
                /\ selectionHistory' = << >> )
      /\ ( /\ RafFire
           /\ CanStyle(Head(raf).id)
           /\ HasMeta(metaById, Head(raf).id)
           /\ metaById[Head(raf).id].floor # NoFloor )
         => svg.floor = metaById[Head(raf).id].floor
    ]_vars

\* C3: when the callback that retries the pending selection runs on a mounted
\* scene that does not hold the target, the pending request is dropped (so no
\* later mount retries it).
C3_FailedRetryDropsPending ==
  [][ ( /\ RafFire
        /\ Mounted
        /\ Head(raf).id = pendingSelection
        /\ ~CanStyle(Head(raf).id) )
      => pendingSelection' = "" ]_vars

\* the ids of a log of selections, newest first, each id once
RECURSIVE MruOf(_)
MruOf(log) ==
  IF log = << >> THEN << >>
  ELSE LET last == log[Len(log)]
           older == SelectSeq(SubSeq(log, 1, Len(log) - 1), LAMBDA x : x # last)
       IN <<last>> \o MruOf(older)

C5_FloorChangeClearsHistory ==
  [][ floor' # floor
      => ( /\ selectionHistory' = << >>
           /\ ~Mounted'
           /\ loads' # << >>
           /\ loads'[Len(loads')].floor = floor'
           /\ ~loads'[Len(loads')].cleaned ) ]_vars

\* C5 witness: after the change to floor 2 the history holds a region selected
\* in the scene of floor 2 and nothing else
C5_Witness ==
  /\ floor = 2
  /\ svg.floor = 2
  /\ HistoryIdsOf(selectionHistory) = <<"UCC146">>
  /\ selectedEls = {querySelectorId(SceneDoc(2), "UCC146")}

\* C6: when the metadata table is replaced, every entry of the history stays in
\* the history with the same name, link and description.
C6_EntriesSurviveMetadataChange ==
  [][ MetaArrive
      => \A i \in 1..Len(selectionHistory) :
           \E j \in 1..Len(selectionHistory') :
             selectionHistory'[j] = selectionHistory[i] ]_vars

\* C7: a region whose metadata record is decorative carries no hover, selection
\* or highlight marker and no label, is not a suggestion nor the exact match
\* for any search text, and is not in the history.
C7_DecorativeExclusion ==
  /\ DecorativeEls \cap (hoverEls \cup selectedEls \cup highlightEls) = {}
  /\ \A l \in labelLayer : l.el \notin DecorativeEls
  /\ \A s \in SearchInputs \cup {search, "atrium", "Atrium UCC", "service"} :
       /\ \A id \in scored(s, metaById) : ~isDecorativeId(metaById, id)
       /\ ~isDecorativeId(metaById, getExactMatch(s, metaById))
  /\ \A i \in 1..Len(selectionHistory) :
       ~isDecorativeId(metaById, selectionHistory[i].id)

\* C8: a click whose resolved target is the root, decorative or a container
\* wrapper selects nothing; a click on any other resolved target, with or
\* without a metadata record, makes it the only marked element and the head of
\* the history.  Stated on the states: whenever a scene is mounted, the click on
\* any of its elements that reaches a region's handler has that outcome.
C8_ClickSelectsResolvedTarget ==
  \A t \in 1..Len(Doc) :
    (Mounted /\ HandlersOnPath(t) # {})
    => LET hit == closestId(Doc, t)
       IN IF Rejected(hit)
          THEN ENABLED ( /\ ClickRegion(t)
                         /\ UNCHANGED <<selectedEls, selectionHistory>> )
          ELSE ENABLED ( /\ ClickRegion(t)
                         /\ selectedEls' = {hit}
                         /\ selectionHistory' # << >>
                         /\ selectionHistory'[1].id = Doc[hit].id )

\* C9: a background click removes every selection marker and leaves the
\* history, the active floor, the search text and the active category.
C9_BackgroundClickFrame ==
  [][ (\E t \in 1..Len(Doc) : BgClick(t))
      => ( /\ selectedEls' = {}
           /\ UNCHANGED <<selectionHistory, floor, search, activeCategory>> ) ]_vars

\* C9 witness: nothing is marked in the mounted scene while the history, the
\* search text and the active category are not empty
C9_Witness ==
  /\ Mounted
  /\ selectedEls = {}
  /\ selectionHistory # << >>
  /\ search # ""
  /\ activeCategory # ""
  /\ pendingSelection = ""
  /\ loads = << >>

\* C10: goToRoom with an id without a metadata record, or with a decorative
\* record, changes nothing, also with updateSearch, clearCategory and highlight.
C10_RejectedGoToRoomIsNoOp ==
  [][ \A id \in SearchBoxIds :
        ( /\ GoToRoomCall(id, SearchBoxOptions)
          /\ (~HasMeta(metaById, id) \/ metaById[id].decorative) )
        => UNCHANGED vars ]_vars

\* C10 witness: the metadata holds a decorative record, a region is marked and
\* the search box and the category are set, so that a call that went on would
\* show
C10_Witness ==
  /\ Mounted
  /\ isDecorativeId(metaById, "Atrium")
  /\ ~HasMeta(metaById, "X9")
  /\ selectedEls # {}
  /\ selectionHistory # << >>
  /\ search = "ucc"
  /\ activeCategory = "service"

\* the scale bounds of the viewport
MinScale == Lit(75, 100)
MaxScale == Num(3)
ScaleInRange(sc) == sc.k = "fin" /\ ~Less[sc, MinScale] /\ ~Less[MaxScale, sc]

\* C11: whatever wheel zooms, toolbar zooms and resets, pan moves, pinch moves
\* and scene mounts have happened, the scale of the view transform is a number
\* of [0.75, 3]
C11_ScaleClamped == ScaleInRange(viewTransform.scale)

\* a pinch that halves the distance of the pointers has been clamped to 0.75
C11_Witness ==
  /\ pinchState.kind = "pinch"
  /\ StrictEq[pinchState.origin.scale, Num(1)]
  /\ transformChanges > 0
  /\ viewTransform.scale = MinScale

\* C12: when the user keeps zooming out, by the wheel or the toolbar button,
\* from any scale of [0.75, 3], the scale is never below 0.75, it becomes
\* exactly 0.75 after finitely many steps and it stays 0.75 from then on
C12_ZoomOutConverges ==
  /\ [](~Less[viewTransform.scale, MinScale])
  /\ <>[](viewTransform.scale = MinScale)

\* two zoom-out steps have brought the scale to 0.75
C12_Witness ==
  /\ transformChanges >= 2
  /\ viewTransform.scale = MinScale
  /\ ~ENABLED <<ZoomOutStep>>_vars

\* the screen coordinate of the content point under p before the zoom from t
\* to t2, for one axis: (p - t) / scale * scale2 + t2
FocalImage(p, t, sc, t2, sc2) == Add[Mul[Div[Sub[p, t], sc], sc2], t2]

FAbs(a) == IF Less[a, FZero] THEN Neg[a] ELSE a

\* eight units of rounding error, relative to |p| + |t2|
FocalTolerance == Lit(8, MantissaLimit)
FocalClose(p, t, sc, t2, sc2) ==
  LET err == FAbs(Sub[FocalImage(p, t, sc, t2, sc2), p])
      bound == Mul[FocalTolerance, Add[FAbs(p), FAbs(t2)]]
  IN err.k = "fin" /\ ~Less[bound, err]

\* C13 as stated: the content point under the focal point before a zoom is
\* mapped back to exactly the focal point after it.  The rounding of the
\* arithmetic violates it.
C13_FocalExact ==
  [][\A f \in FocalFactors, p \in FocalPoints :
       ZoomAtCall(f, p) =>
         /\ StrictEq[FocalImage(p.x, viewTransform.x, viewTransform.scale,
                                viewTransform'.x, viewTransform'.scale), p.x]
         /\ StrictEq[FocalImage(p.y, viewTransform.y, viewTransform.scale,
                                viewTransform'.y, viewTransform'.scale), p.y]]_vars

\* C13, amended: the content point under the focal point before a zoom is
\* mapped back to the focal point after it within a few units of rounding
\* error, on each axis
C13_FocalWithinTolerance ==
  [][\A f \in FocalFactors, p \in FocalPoints :
       ZoomAtCall(f, p) =>
         /\ FocalClose(p.x, viewTransform.x, viewTransform.scale,
                       viewTransform'.x, viewTransform'.scale)
         /\ FocalClose(p.y, viewTransform.y, viewTransform.scale,
                       viewTransform'.y, viewTransform'.scale)]_vars

\* a zoom about a point off the origin has changed the scale and the translation
C13_Witness ==
  /\ transformChanges = 1
  /\ ~StrictEq[viewTransform.scale, MinScale]
  /\ ~StrictEq[viewTransform.scale, MaxScale]
  /\ ~StrictEq[viewTransform.x, FZero]
  /\ ~StrictEq[viewTransform.y, FZero]

\* C14: a pan starts from the transform in effect at its pointer-down, and a
\* move of the pan pointer back to the point where the pan started sets
\* exactly that transform again: same scale, same x, same y
C14_PanRoundTrip ==
  [][\A id \in PointerIds, p \in GesturePoints :
       /\ (PointerDown(id, p) /\ panState'.kind = "pan")
             => panState'.origin = viewTransform
       /\ (/\ PointerMove(id, p)
           /\ PanBranch(SetPointer(activePointers, id, p), id)
           /\ p = panState.start)
             => viewTransform' = panState.origin]_vars

\* the pan pointer is back at its start point after it moved the transform away
C14_Witness ==
  /\ panState.kind = "pan"
  /\ DOMAIN activePointers = {panState.pointerId}
  /\ activePointers[panState.pointerId] = panState.start
  /\ lastMove = "pan, changed"
  /\ viewTransform = panState.origin

\* C15: the release of one of two pinching pointers clears the pinch state
\* and leaves the pan state cleared; while one pointer is tracked and no pan
\* state is set, a move of that pointer leaves the transform unchanged; and
\* the pan state is set only by a pointer-down that makes the number of
\* tracked pointers exactly one
C15_NoPanAfterPinchRelease ==
  [][\A id \in PointerIds :
       /\ (clearPointer(id) /\ id \in DOMAIN activePointers
              /\ Cardinality(DOMAIN activePointers) = 2)
             => pinchState' = NoGesture /\ panState' = NoGesture
       /\ \A p \in GesturePoints :
            /\ (PointerMove(id, p) /\ panState = NoGesture
                   /\ Cardinality(DOMAIN activePointers) = 1)
                  => viewTransform' = viewTransform
            /\ (panState' # panState /\ panState' # NoGesture)
                  => \E i \in PointerIds, q \in GesturePoints :
                       /\ PointerDown(i, q)
                       /\ DOMAIN activePointers' = {i}]_vars

\* one of two pinching pointers was released (one pointer is tracked and no
\* pan state is set), and a move of the pointer left was ignored
C15_Witness ==
  /\ lastMove = "ignored"
  /\ Cardinality(DOMAIN activePointers) = 1
  /\ panState = NoGesture
  /\ pinchState = NoGesture

\* every field of the transform is a finite number and the scale is in range
TransformDefined(t) ==
  /\ ScaleInRange(t.scale)
  /\ t.x.k = "fin"
  /\ t.y.k = "fin"

\* C16: a move during a pinch that started with both pointers at one point
\* (initialDistance = 0) leaves the transform as it is, and the transform is
\* never undefined, infinite or out of range
C16_DegeneratePinchIgnored ==
  /\ [][\A id \in PointerIds, p \in GesturePoints :
          (/\ PointerMove(id, p)
           /\ PinchBranch(SetPointer(activePointers, id, p))
           /\ StrictEq[pinchState.initialDistance, FZero])
            => viewTransform' = viewTransform]_vars
  /\ [](TransformDefined(viewTransform))

\* a pinch that started at distance 0 has its pointers apart after a move that
\* the pinch branch ignored
C16_Witness ==
  /\ lastMove = "pinch, same"
  /\ pinchState.kind = "pinch"
  /\ StrictEq[pinchState.initialDistance, FZero]
  /\ DOMAIN activePointers = PointerIds
  /\ activePointers[1] # activePointers[2]

\* the ids whose merged, lower-cased category set holds the active category
MergedCategoryMatches(cat, meta) ==
  IF cat = "" THEN {}
  ELSE {id \in DOMAIN meta :
          /\ ~isDecorativeId(meta, id)
          /\ cat \in SeqToSet(collectCategories(meta[id]))}

\* C17: while a scene is mounted, the elements that carry the highlight
\* marker are exactly the elements of the mounted scene whose id is a search
\* match or a category match for the current search text, active category
\* and metadata table
C17_HighlightsReconciled ==
  Mounted =>
    highlightEls =
      {querySelectorId(Doc, id) :
         id \in SearchMatches(search, metaById)
                  \cup MergedCategoryMatches(activeCategory, metaById)} \ {0}

\* C18: when a category is active, the category matches are the regions that
\* are not decorative and whose merged, lower-cased category set (category
\* and categories) holds the active tag
C18_CategoryMatchesMerged ==
  activeCategory # "" =>
    CategoryMatches(activeCategory, metaById)
      = MergedCategoryMatches(activeCategory, metaById)

\* the entry of id a is ranked before the entry of id b: a higher score, or
\* the same score and a before b in the order of the ids
RankedBefore(meta, q, a, b) ==
  LET sa == SuggestionScore(meta[a], q)
      sb == SuggestionScore(meta[b], q)
  IN sa > sb \/ (sa = sb /\ localeCompare(a, b) < 0)

\* C19: for the trimmed, lower-cased query, the suggestions are rooms that
\* are not decorative and score above 0, in descending score with ties in
\* ascending id order, at most 8 of them, and a room that scores is left out
\* only when 8 rooms are ranked before it; the scores are 100, 90, 80, 60 and
\* 50 as the rooms of SuggestRooms show for "ucc1"; with the rooms UCC146 and
\* UCC100 the query "ucc1" gives UCC100, UCC146
C19_SuggestionRanking ==
  LET q == toLowerCase(trim(search))
      res == suggestions(search, metaById)
      ids == SeqToSet(res)
      full == IndexById(SuggestRooms)
  IN /\ q = "" => res = << >>
     /\ Len(res) <= 8
     /\ Cardinality(ids) = Len(res)
     /\ \A a \in ids :
          /\ a \in DOMAIN metaById
          /\ ~metaById[a].decorative
          /\ SuggestionScore(metaById[a], q) > 0
     /\ \A i, j \in 1..Len(res) : i < j => RankedBefore(metaById, q, res[i], res[j])
     /\ q # "" =>
          \A b \in DOMAIN metaById \ ids :
            (~metaById[b].decorative /\ SuggestionScore(metaById[b], q) > 0)
              => /\ Len(res) = 8
                 /\ \A a \in ids : RankedBefore(metaById, q, a, b)
     /\ (q = "ucc1" /\ DOMAIN metaById = {"UCC146", "UCC100"})
          => res = <<"UCC100", "UCC146">>
     /\ (q = "ucc1" /\ metaById = full)
          => /\ res = <<"UCC1", "UCC100", "ucc105", "UCC110", "UCC120", "UCC146",
                        "A1", "XUCC12">>
             /\ [i \in 1..Len(res) |-> SuggestionScore(full[res[i]], q)]
                  = <<100, 90, 90, 90, 90, 90, 80, 60>>
             /\ SuggestionScore(full["B2"], q) = 50
             /\ SuggestionScore(full["Z9"], q) = 0

\* nine rooms score for the query and the suggestions are the first eight
C19_Witness ==
  /\ toLowerCase(trim(search)) = "ucc1"
  /\ Cardinality(scored(search, metaById)) = 9
  /\ Len(suggestions(search, metaById)) = 8

----------------------------------------------------------------------------
(* Listener lifecycle *)

\* C20: every listener attached while mounting a scene is removed when that
\* mount is replaced or torn down, also when its fetch completed after the
\* cleanup of its load had run: no listener is left on the elements of a scene
\* that is no longer the mounted one
C20_ListenersRemoved == \A l \in listeners : l.mounted

----------------------------------------------------------------------------
(* Transform and floor changes *)

\* C21: the view transform is the default after every floor change, until a
\* gesture or a toolbar button changes it: once the floor has changed and the
\* scene fetches have settled (the scene is mounted or its load failed), the
\* transform is DEFAULT_TRANSFORM unless a gesture or button acted since
C21_TransformResetOnFloorChange ==
  (lastMove = "floor change" /\ loads = << >>) => viewTransform = DEFAULT_TRANSFORM

----------------------------------------------------------------------------
(* Labels *)

\* the label of element k of the mounted scene, as a set (empty: no label)
LabelsOf(k) == {l \in labelLayer : l.el = k}

\* the mounted scene's elements with an id and a readable box
Boxed == {k \in 2..Len(Doc) : Doc[k].id # "" /\ Doc[k].bbox = "finite"}

\* C22: no label is produced for a region whose maximum candidate font size
\* min(20, 0.6 x box height) is below 8; a region of box height 5 has no
\* label whatever its width and name
C22_LabelFitSkip ==
  Mounted =>
    \A k \in Boxed :
      Min(200, Doc[k].h * 6) < 80 \/ Doc[k].h = 5 => LabelsOf(k) = {}

C22_Witness ==
  /\ Mounted
  /\ \E k \in Boxed :
       /\ Doc[k].h = 13 /\ Doc[k].w = 120 /\ LabelsOf(k) = {}
       /\ HasMeta(metaById, Doc[k].id) /\ metaById[Doc[k].id].name = "Lab"
       /\ ~metaById[Doc[k].id].decorative
       /\ collectCategories(metaById[Doc[k].id]) = << >>
  /\ \E k \in Boxed : LabelsOf(k) # {}

\* C23: the label of a region is its metadata name trimmed, and the region's
\* id when the name is absent or blank (empty or white space only); a region
\* with a blank name and a box large enough for its id gets a label showing
\* the id
C23_LabelTextFallsBackToId ==
  Mounted =>
    \A k \in Boxed :
      LET id == Doc[k].id
          name == IF HasMeta(metaById, id) THEN trim(metaById[id].name) ELSE ""
          expected == IF name = "" THEN id ELSE name
      IN /\ \A l \in LabelsOf(k) : l.text = expected
         /\ ( /\ HasMeta(metaById, id)
              /\ ~metaById[id].decorative
              /\ "bathroom" \notin SeqToSet(collectCategories(metaById[id]))
              /\ id \in {"R1", "R2"}
              /\ name = ""
              /\ Doc[k].w = 120 /\ Doc[k].h = 40 )
            => LabelsOf(k) # {}

----------------------------------------------------------------------------
(* Container wrappers *)

\* a container-wrapper id by the naming convention: it starts with "floor"
\* or "layer" in any case, or is the reserved name
ContainerByConvention(id) ==
  \/ startsWith(toLowerCase(id), "floor")
  \/ startsWith(toLowerCase(id), "layer")
  \/ id = "Layer_1"

\* C24: an element whose id starts with "floor" or "layer" (in any case), or
\* whose id is "Layer_1", is a container wrapper: it never carries the
\* selection marker or the hover marker and never has a label
C24_ContainersInert ==
  Mounted =>
    \A k \in 2..Len(Doc) :
      ContainerByConvention(Doc[k].id) =>
        k \notin selectedEls /\ k \notin hoverEls /\ LabelsOf(k) = {}

----------------------------------------------------------------------------
(* zoomAt at the clamp boundary *)

\* C25: when clamp(scale x factor) equals the current scale (zoom-in at
\* scale 3, zoom-out at scale 0.75), zoomAt leaves the whole transform
\* unchanged, for every focal point
C25_ClampedZoomIsNoOp ==
  [][lastMove' = "zoom, scale kept" => viewTransform' = viewTransform]_vars

C25_Witness ==
  /\ lastMove = "zoom, scale kept"
  /\ viewTransform.scale \in {MinScale, MaxScale}
  /\ viewTransform.x # Num(0)

----------------------------------------------------------------------------
(* Pinch update *)

\* the screen coordinate of the content coordinate c under the transform
\* (sc2, t2), for one axis
PinchImage(c, sc2, t2) == Add[Mul[c, sc2], t2]

\* that coordinate is mid within eight units of rounding error, relative to
\* |mid| + |t2|
PinchClose(mid, c, sc2, t2) ==
  LET err == FAbs(Sub[PinchImage(c, sc2, t2), mid])
      bound == Mul[FocalTolerance, Add[FAbs(mid), FAbs(t2)]]
  IN err.k = "fin" /\ ~Less[bound, err]

\* a move of pointer id to p that the pinch branch handles, of a pinch that
\* started with its pointers apart
PinchUpdate(id, p) ==
  /\ PointerMove(id, p)
  /\ PinchBranch(SetPointer(activePointers, id, p))
  /\ Less[FZero, pinchState.initialDistance]

\* the scale a pinch update must set
PinchTargetScale ==
  LET p1 == FirstPoint(activePointers')
      p2 == SecondPoint(activePointers')
  IN clampScale(Mul[pinchState.origin.scale,
                    Div[PointerDistance(p1, p2), pinchState.initialDistance]])

\* the screen midpoint of the two pointers after the move
PinchMidpoint ==
  PointerMidpoint(FirstPoint(activePointers'), SecondPoint(activePointers'))

\* C26 as stated: a pinch update sets the scale clamp(origin.scale x
\* currentDistance / initialDistance) and a translation under which the
\* content midpoint fixed at pinch start is mapped to exactly the current
\* screen midpoint.  The rounding of the arithmetic violates it.
C26_PinchExact ==
  [][\A id \in PointerIds, p \in GesturePoints :
       PinchUpdate(id, p) =>
         /\ viewTransform'.scale = PinchTargetScale
         /\ StrictEq[PinchImage(pinchState.midpointContent.x, viewTransform'.scale,
                                viewTransform'.x), PinchMidpoint.x]
         /\ StrictEq[PinchImage(pinchState.midpointContent.y, viewTransform'.scale,
                                viewTransform'.y), PinchMidpoint.y]]_vars

\* C26, amended: a pinch update sets that scale, and the content midpoint
\* fixed at pinch start is mapped to the current screen midpoint within a few
\* units of rounding error, on each axis
C26_PinchWithinTolerance ==
  [][\A id \in PointerIds, p \in GesturePoints :
       PinchUpdate(id, p) =>
         /\ viewTransform'.scale = PinchTargetScale
         /\ PinchClose(PinchMidpoint.x, pinchState.midpointContent.x,
                       viewTransform'.scale, viewTransform'.x)
         /\ PinchClose(PinchMidpoint.y, pinchState.midpointContent.y,
                       viewTransform'.scale, viewTransform'.y)]_vars

\* a pinch that started with its pointers apart has changed the scale
C26_Witness ==
  /\ lastMove = "pinch, changed"
  /\ pinchState.kind = "pinch"
  /\ Less[FZero, pinchState.initialDistance]
  /\ ~StrictEq[viewTransform.scale, pinchState.origin.scale]
  /\ DOMAIN activePointers = PointerIds

----------------------------------------------------------------------------
(* Hover *)

\* element k of the mounted scene is a valid hover target: it has an id, is
\* not the root, is not decorative and is not a container wrapper
HoverValid(k) ==
  /\ k # 0
  /\ Doc[k].id # ""
  /\ Doc[k].tag # "svg"
  /\ ~closestDecorative(Doc, k)
  /\ ~isDecorativeId(metaById, Doc[k].id)
  /\ ~ContainerByConvention(Doc[k].id)

\* C27: at most one element carries the hover marker, and it is the element
\* recorded as hovered; entering a valid element moves the marker to it,
\* entering a rejected element changes nothing, and a mouse-out whose related
\* target resolves to something other than the hovered element clears the
\* marker
C27_HoverMarker ==
  /\ [](/\ Cardinality(hoverEls) <= 1
        /\ hoverEls = IF hovered = 0 THEN {} ELSE {hovered})
  /\ [][\A t \in 1..Len(Doc) :
          MouseOver(t) =>
            IF HoverValid(closestId(Doc, t))
            THEN hoverEls' = {closestId(Doc, t)}
            ELSE hoverEls' = hoverEls]_vars
  /\ [][\A rel \in 0..Len(Doc) :
          (MouseOut(rel) /\ (IF rel = 0 THEN 0 ELSE closestId(Doc, rel)) # hovered)
            => hoverEls' = {}]_vars

----------------------------------------------------------------------------
(* Selection marker *)

\* C28: at most one element of the mounted scene carries the selection
\* marker, after any interleaving of region clicks, background clicks,
\* goToRoom calls, deferred selections and scene mounts
C28_SingleSelection ==
  /\ Cardinality(selectedEls) <= 1
  /\ selectedEls \subseteq 2..Len(Doc)

\* a second region of the mounted scene was selected after a first one, and
\* it alone carries the marker
C28_Witness ==
  /\ Mounted
  /\ Len(selectionHistory) >= 2
  /\ selectedEls = {querySelectorId(Doc, selectionHistory[1].id)}

----------------------------------------------------------------------------
(* Label font size *)

\* the regions of the mounted scene that pass every test before the fitting
\* loop: a record that is not decorative and not a bathroom, a text to show,
\* a readable box of positive size and a maximum font size of 8 or more
FitCandidates ==
  {k \in Boxed :
     /\ Doc[k].id \in {"R1", "R2"}
     /\ HasMeta(metaById, Doc[k].id)
     /\ ~metaById[Doc[k].id].decorative
     /\ "bathroom" \notin SeqToSet(collectCategories(metaById[Doc[k].id]))
     /\ trim(metaById[Doc[k].id].name) # ""
     /\ Doc[k].w > 0 /\ Doc[k].h > 0
     /\ Min(2000, Doc[k].h * 60) >= 800}

\* the sizes the loop tries for a box of height h, in hundredths: start =
\* min(18, maxFontSize), start - 1, ... while 8 or more
SizeSequence(h) ==
  {sz \in 800..1800 : \E i \in 0..10 : sz = Min(1800, Min(2000, h * 60)) - 100 * i}

\* the sizes of the sequence at which the text is no wider than 90% of the box
FittingSizes(k) ==
  {sz \in SizeSequence(Doc[k].h) :
     TextLength(trim(metaById[Doc[k].id].name), sz) * 10 <= Doc[k].w * 900}

\* C29: the font size of the label of an eligible region is the largest size
\* of the sequence start, start - 1, ... (while >= 8) at which the text fits
\* 90% of the box width; the region has no label when no size fits
C29_LabelFontSize ==
  Mounted =>
    \A k \in FitCandidates :
      IF FittingSizes(k) = {} THEN LabelsOf(k) = {}
      ELSE /\ Cardinality(LabelsOf(k)) = 1
           /\ \A l \in LabelsOf(k) :
                /\ l.fontSize \in FittingSizes(k)
                /\ \A sz \in FittingSizes(k) : sz <= l.fontSize

\* a label whose size the loop reached after sizes that did not fit
C29_Witness ==
  /\ Mounted
  /\ \E k \in FitCandidates :
       \E l \in LabelsOf(k) :
         l.fontSize > 800 /\ l.fontSize < Min(1800, Min(2000, Doc[k].h * 60))

----------------------------------------------------------------------------
(* Label eligibility *)

\* C30: a label exists only for an element that has an id that is not a
\* container-wrapper id, has a metadata record that is not decorative and
\* whose merged, lower-cased categories do not hold "bathroom", and has a
\* bounding box of finite, strictly positive width and height; a region whose
\* bounding box cannot be read is left out and the other regions are still
\* labelled
C30_LabelEligibility ==
  Mounted =>
    /\ \A l \in labelLayer :
         LET id == Doc[l.el].id
         IN /\ id # ""
            /\ ~ContainerByConvention(id)
            /\ HasMeta(metaById, id)
            /\ ~metaById[id].decorative
            /\ "bathroom" \notin SeqToSet(collectCategories(metaById[id]))
            /\ Doc[l.el].bbox = "finite"
            /\ Doc[l.el].w > 0
            /\ Doc[l.el].h > 0
    /\ (\E k \in 2..Len(Doc) : Doc[k].bbox # "finite")
         => \E l \in labelLayer : Doc[l.el].id = "R2"

----------------------------------------------------------------------------
(* Label overlay layer *)

\* C31: the mounted scene holds at most one label overlay layer, the one
\* labelLayerRef.current refers to, and it holds none when no region got a
\* label (or the metadata table is empty)
C31_SingleOverlayLayer ==
  /\ overlay.layers <= 1
  /\ overlay.layers = 1 <=> labelLayer # {}
  /\ overlay.layers = 1 <=> overlay.ref = "attached"
  /\ svg.meta = EmptyMeta => overlay.layers = 0

\* a scene is mounted with metadata and one layer
C31_Witness ==
  /\ Mounted
  /\ svg.meta # EmptyMeta
  /\ overlay = [layers |-> 1, ref |-> "attached"]

----------------------------------------------------------------------------
(* Fetch failures *)

\* the scene fetches that have not been cleaned up
LiveLoads == {i \in 1..Len(loads) : ~loads[i].cleaned}

\* C32: a scene fetch that fails mounts no scene and attaches no listener,
\* and it is not retried (a fetch starts only when the floor changes or a
\* metadata fetch resolves, and at most the last one is live); a metadata
\* fetch that fails leaves the metadata table empty and touches neither the
\* scene nor the fetches in flight
C32_FetchFailureNonFatal ==
  /\ [](/\ svg.floor \notin BrokenFloors
        /\ \A l \in listeners : l.floor \notin BrokenFloors
        /\ LiveLoads \subseteq {Len(loads)}
        /\ \A i \in LiveLoads : loads[i].floor = floor)
  /\ [][/\ Len(loads') > Len(loads) => floor' # floor \/ metaFetches' < metaFetches
        /\ metaFetches' < metaFetches /\ metaById' = EmptyMeta
             => UNCHANGED <<svg, listeners, loads, labelLayer>>]_vars

\* the fetch of the first floor failed, the metadata fetches failed, and the
\* scene of the floor chosen afterwards is mounted with its listeners
C32_Witness ==
  /\ loads = << >>
  /\ metaFetches = 0
  /\ metaById = EmptyMeta
  /\ Mounted
  /\ svg.floor = floor
  /\ ~svg.stale
  /\ \E l \in listeners : l.registered /\ l.mounted /\ l.floor = floor

----------------------------------------------------------------------------
(* Gesture state *)

\* C33: the pan state and the pinch state are never both present, the
\* pointer of the pan state is tracked, and a pinch state is present only
\* while at least two pointers are tracked
C33_GestureStateInvariant ==
  /\ ~(panState.kind = "pan" /\ pinchState.kind = "pinch")
  /\ panState.kind = "pan" => panState.pointerId \in DOMAIN activePointers
  /\ pinchState.kind = "pinch" => Cardinality(DOMAIN activePointers) >= 2

\* a pinch state with three pointers tracked
C33_Witness ==
  /\ pinchState.kind = "pinch"
  /\ Cardinality(DOMAIN activePointers) = 3

\* C34: a pinch update that changes the transform is made with the two
\* pointers that started the pinch
C34_PinchPointerIdentity ==
  lastMove = "pinch, changed" => pinchState.pointerIds = DOMAIN activePointers

\* C35: a pan move leaves the scale in effect just before the move, also
\* when the wheel or a toolbar button zoomed since the pan started
C35_PanKeepsScale ==
  [][lastMove' \in {"pan, same", "pan, changed"}
       => viewTransform'.scale = viewTransform.scale]_vars

\* the kinds of step a pointermove of a tracked pointer makes
MoveKinds == {"pinch, same", "pinch, changed", "pan, same", "pan, changed", "ignored"}

\* C36: once the scene of the floor switched to is mounted with the default
\* transform, a move of a pointer that went down before the switch (no
\* pointer event happened since the switch) leaves the transform alone
C36_NoGestureSurvivesFloorSwitch ==
  [][(/\ lastMove = "floor change"
      /\ Mounted
      /\ svg.floor = floor
      /\ viewTransform = DEFAULT_TRANSFORM
      /\ lastMove' \in MoveKinds)
       => viewTransform' = viewTransform]_vars

----------------------------------------------------------------------------
(* Selection marker and history *)

\* C37: an element of the mounted scene that carries the selection marker
\* is the element of the first entry of the selection history
C37_SelectionMarkerIsHistoryHead ==
  \A k \in selectedEls :
     /\ selectionHistory # << >>
     /\ Head(selectionHistory).id = Doc[k].id

\* an element is marked while the history holds an earlier selection too
C37_Witness ==
  /\ selectedEls # {}
  /\ Len(selectionHistory) >= 2

----------------------------------------------------------------------------
(* Search box *)

\* the elements of the mounted scene that the suggestion list names
SuggestedEls ==
  LET list == suggestions(search, metaById)
  IN {querySelectorId(Doc, list[i]) : i \in 1..Len(list)} \ {0}

\* C38: every region of the suggestion list that has an element in the
\* mounted scene carries the highlight marker, whatever the padding of the
\* search text
C38_SuggestionsHighlighted == SuggestedEls \subseteq highlightEls

\* the suggestion list of the current render
SuggestionList == suggestions(search, metaById)

\* C39: the focus index is -1 or an index of the suggestion list; ArrowDown
\* advances it and wraps from the last entry to 0, ArrowUp moves it back and
\* wraps from -1 or 0 to the last entry, neither changes it when the list is
\* empty, and Escape and a change of the search text set it to -1
C39_FocusIndex ==
  /\ [](focusedSuggestionIndex \in (-1)..(Len(SuggestionList) - 1))
  /\ [][
        /\ onKeyDown("ArrowDown") =>
             (focusedSuggestionIndex' =
                IF SuggestionList = << >> THEN focusedSuggestionIndex
                ELSE IF focusedSuggestionIndex = Len(SuggestionList) - 1 THEN 0
                ELSE focusedSuggestionIndex + 1)
        /\ onKeyDown("ArrowUp") =>
             (focusedSuggestionIndex' =
                IF SuggestionList = << >> THEN focusedSuggestionIndex
                ELSE IF focusedSuggestionIndex <= 0 THEN Len(SuggestionList) - 1
                ELSE focusedSuggestionIndex - 1)
        /\ onKeyDown("Escape") => (focusedSuggestionIndex' = -1)
        /\ search' # search => (focusedSuggestionIndex' = -1)
     ]_vars

\* the last of several suggestions is focused
C39_Witness ==
  /\ Len(SuggestionList) >= 2
  /\ focusedSuggestionIndex = Len(SuggestionList) - 1

\* the rooms that are not decorative and whose id is the trimmed search text
\* up to case
ExactIds ==
  {id \in DOMAIN metaById :
     /\ ~isDecorativeId(metaById, id)
     /\ toLowerCase(id) = toLowerCase(trim(search))}

\* C40: when some room that is not decorative has the trimmed search text
\* as its id up to case, the first suggestion is such a room, and Enter
\* without a focused suggestion navigates to it: the search text becomes
\* its id, the category is cleared and the room is selected or pending
C40_EnterGoesToExactMatch ==
  /\ [](ExactIds # {} => (SuggestionList # << >> /\ SuggestionList[1] \in ExactIds))
  /\ [][(/\ ExactIds # {}
          /\ focusedSuggestionIndex = -1
          /\ onKeyDown("Enter"))
         => ( /\ search' \in ExactIds
              /\ activeCategory' = ""
              /\ focusedSuggestionIndex' = -1
              /\ \/ pendingSelection' = search'
                 \/ /\ selectionHistory' # << >>
                    /\ Head(selectionHistory').id = search' ) ]_vars

\* Enter has put the id of the room in the search box and asked for it
C40_Witness ==
  /\ search \in ExactIds
  /\ search \notin SuggestQueries
  /\ pendingSelection = search
  /\ focusedSuggestionIndex = -1
  /\ activeCategory = ""

====
